----------------------------- MODULE MCWorkloads -----------------------------
(* What runs on the DUT and what is made of its records, and the requests that
   start it, checked side by side: a behaviour is one of one part, and the
   variables of the others stay as they are.  The parts share no state. *)
EXTENDS HeartbeatLink, CurrentLogger, MemCheck, Particles, Requests, SeeTally

CONSTANTS x1, x2, x3

VARIABLE part    \* "link", "logger", "memory", "particles", "requests", "tally"

MCChunks == <<{x1, x2}, {x3}>>

workloadVars == <<linkVars, loggerVars, memVars, particlesVars, requestVars,
                  tallyVars, part>>

WorkloadsInit ==
  /\ part \in {"link", "logger", "memory", "particles", "requests", "tally"}
  /\ LinkInit /\ LoggerInit /\ MemInit /\ ParticlesInit /\ RequestsInit /\ TallyInit
  /\ part # "particles" => golden = Checkpoints

WorkloadsNext ==
  /\ UNCHANGED part
  /\ \/ /\ part = "link" /\ LinkNext
        /\ UNCHANGED <<loggerVars, memVars, particlesVars, requestVars, tallyVars>>
     \/ /\ part = "logger" /\ LoggerNext
        /\ UNCHANGED <<linkVars, memVars, particlesVars, requestVars, tallyVars>>
     \/ /\ part = "memory" /\ MemNext
        /\ UNCHANGED <<linkVars, loggerVars, particlesVars, requestVars, tallyVars>>
     \/ /\ part = "particles" /\ ParticlesNext
        /\ UNCHANGED <<linkVars, loggerVars, memVars, requestVars, tallyVars>>
     \/ /\ part = "requests" /\ RequestsNext
        /\ UNCHANGED <<linkVars, loggerVars, memVars, particlesVars, tallyVars>>
     \/ /\ part = "tally" /\ TallyNext
        /\ UNCHANGED <<linkVars, loggerVars, memVars, particlesVars, requestVars>>

WorkloadsSpec == WorkloadsInit /\ [][WorkloadsNext]_workloadVars

\* Every variable has its type, and the words that the parts' steps go through
\* belong together.
WorkloadsTypeOK ==
  /\ LinkTypeOK /\ LoggerTypeOK /\ MemTypeOK /\ ParticlesTypeOK /\ RequestsTypeOK
  /\ TallyTypeOK
=============================================================================
