------------------------------ MODULE MCArbiter ------------------------------
(* The parts of the arbiter that show and keep results, checked side by side: a
   behaviour is one of one part, and the variables of the others stay as they
   are.  The parts share no state; what one gets from another is an input of
   its model. *)
EXTENDS LogMirror, BaselineFiles, Coordinator

CONSTANTS b1, b2, r1, r2, r3, s1

VARIABLE part    \* "mirror", "files" or "gui"

arbiterVars == <<mirrorVars, filesVars, gui, part>>

ArbiterInit ==
  /\ part \in {"mirror", "files", "gui"}
  /\ MirrorInit /\ FilesInit /\ Init
  /\ part # "mirror" => backend = "rsync"
  /\ part # "files" => goodOf = [b \in Baselines |-> Rows]

ArbiterNext ==
  /\ UNCHANGED part
  /\ \/ part = "mirror" /\ MirrorNext /\ UNCHANGED <<filesVars, gui>>
     \/ part = "files" /\ FilesNext /\ UNCHANGED <<mirrorVars, gui>>
     \/ part = "gui" /\ Next /\ UNCHANGED <<mirrorVars, filesVars>>

\* MirrorFairness, FilesFairness and the coordinator's Fairness, each where its
\* part is the one that runs.
ArbiterFairness ==
  /\ WF_mirrorVars(part = "mirror" /\ PullWhole)
  /\ WF_mirrorVars(part = "mirror" /\ Poll)
  /\ \A b \in Baselines : WF_filesVars(part = "files" /\ FetchStep(b))
  /\ WF_gui(part = "gui" /\ FireMirror)
  /\ WF_gui(part = "gui" /\ Answer)
  /\ WF_gui(part = "gui" /\ (Submit \/ Decline))

ArbiterSpec == ArbiterInit /\ [][ArbiterNext]_arbiterVars /\ ArbiterFairness

\* Every variable has its type, and the words that the parts' steps go through
\* belong together.
ArbiterTypeOK == MirrorTypeOK /\ FilesTypeOK /\ TypeOK
=============================================================================
