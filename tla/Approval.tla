------------------------------ MODULE Approval ------------------------------
(***************************************************************************)
(* What interrupt.WithApproval promises the user, with no runner, model or *)
(* session behind it: a guarded call is put to the user before anything    *)
(* else happens to it, its tool runs only in a run that was told "yes", and *)
(* the transcript answers it only with what such a run did: the tool's     *)
(* result after a "yes", a rejection after a "no".                         *)
(*                                                                         *)
(* It does not promise that the tool runs at most once: a run that ends    *)
(* early leaves its question open, and may be resumed again.               *)
(***************************************************************************)
CONSTANTS
  Runs,      \* the runs that may be given a verdict
  Guarded    \* the tool calls that need an approval

VARIABLES
  phase,     \* how far each guarded call has come
  verdict,   \* what each run was told about each guarded call
  performed  \* <<r, c>>: run r executed the tool of call c

vars == <<phase, verdict, performed>>

Phase == {"unseen", "asked", "answered"}
Verdict == {"none", "yes", "no"}

TypeOK ==
  /\ phase \in [Guarded -> Phase]
  /\ verdict \in [Runs -> [Guarded -> Verdict]]
  /\ performed \subseteq Runs \X Guarded

Init ==
  /\ phase = [c \in Guarded |-> "unseen"]
  /\ verdict = [r \in Runs |-> [c \in Guarded |-> "none"]]
  /\ performed = {}

\* Some calls are put to the user, for the first time.
Ask(S) ==
  /\ S # {} /\ \A c \in S : phase[c] = "unseen"
  /\ phase' = [c \in Guarded |-> IF c \in S THEN "asked" ELSE phase[c]]
  /\ UNCHANGED <<verdict, performed>>

\* The user resumes: a run learns the verdicts on calls that were asked.
Resume(r, v) ==
  /\ \A c \in Guarded : verdict[r][c] = "none"
  /\ \A c \in Guarded : v[c] # "none" => phase[c] # "unseen"
  /\ verdict' = [verdict EXCEPT ![r] = v]
  /\ UNCHANGED <<phase, performed>>

Perform(r, c) ==
  /\ verdict[r][c] = "yes"
  /\ performed' = performed \cup {<<r, c>>}
  /\ UNCHANGED <<phase, verdict>>

\* Run r writes the answers to some calls into the transcript.
Answer(r, S) ==
  /\ S # {}
  /\ \A c \in S : \/ verdict[r][c] = "no"
                  \/ verdict[r][c] = "yes" /\ <<r, c>> \in performed
  /\ phase' = [c \in Guarded |-> IF c \in S THEN "answered" ELSE phase[c]]
  /\ UNCHANGED <<verdict, performed>>

Next ==
  \/ \E S \in SUBSET Guarded : Ask(S)
  \/ \E r \in Runs : \/ \E v \in [Guarded -> Verdict] : Resume(r, v)
                     \/ \E c \in Guarded : Perform(r, c)
                     \/ \E S \in SUBSET Guarded : Answer(r, S)

Spec == Init /\ [][Next]_vars
=============================================================================
