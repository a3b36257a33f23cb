--------------------------- MODULE MC_CleanupFiles ---------------------------
(* CleanupFiles with one initial data file and two files writers may      *)
(* create, a clock of four ticks, a retention interval of two ticks that  *)
(* exceeds the writers' lag of one, and a vector size of one, so that     *)
(* two candidates take two calls.                                          *)
EXTENDS CleanupFiles, TLC

CONSTANTS f1, f2, f3, absent

MCFiles == {f1, f2, f3}
MCInitialFiles == {f1}

(* Every combination of named parameters: each is absent, or given with *)
(* a value of its type.                                                    *)
AllOptions ==
  { LET given == {p \in Params : v[p] # absent} IN [p \in given |-> v[p]] :
      v \in [dry_run : BOOLEAN \cup {absent}, cleanup_all : BOOLEAN \cup {absent},
           older_than : {1, 3, absent}] }

(* Options that leave the orphan cutoff to the configured interval.       *)
DefaultOptions == {o \in AllOptions : DOMAIN o \subseteq {"dry_run"}}

(* Old-file cleanup with each cutoff mode, a dry run, and the two         *)
(* rejected combinations; orphan cleanup with the configured interval.    *)
MCInvocations ==
  {<<"OLD_FILES", o>> : o \in {[p \in {} |-> FALSE],
                               [cleanup_all |-> TRUE],
                               [older_than |-> 1],
                               [older_than |-> 3, dry_run |-> TRUE],
                               [cleanup_all |-> TRUE, older_than |-> 3]}}
  \cup {<<"ORPHANED_FILES", o>> : o \in DefaultOptions}

(* Every parameter combination for both functions.                        *)
MCAllInvocations == Types \X AllOptions

=============================================================================
