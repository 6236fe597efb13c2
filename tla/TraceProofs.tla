---- MODULE TraceProofs ----
(***************************************************************************)
(* Trace implements OneShot, for any number of commands, daemons, crashes   *)
(* and faults: what a command is given is the result of its own capture,    *)
(* which was made once and overlapped no other.  And the active marker      *)
(* stands for the capture, with the exemptions the code needs for commands  *)
(* that were interrupted.                                                   *)
(***************************************************************************)
EXTENDS Trace, FiniteSetTheorems, TLAPS

(* ----------------------- the inductive invariant ------------------------ *)

\* No file and no memory knows of a command that has not asked yet, and a
\* command that still waits has printed nothing.
FreshInv ==
    \A c \in Clients :
        /\ cpc[c] \in Asking => c \notin {request, seen, capture, result}
        /\ cpc[c] \in Asking \cup Waiting => c \notin printed

\* A daemon captures for nobody before it has read a request, and for somebody
\* until it has finished; it never claims without having seen a request.
CaptureInv ==
    /\ ~LifetimeHeld => capture = NoOne
    /\ \A d \in Daemons :
          /\ dpc[d] \in Starting \cup {"starting"} => capture = NoOne
          /\ dpc[d] \in Finishing \cup {"unmark"} => capture # NoOne
          /\ dpc[d] \in {"rename", "read"} => seen # NoOne
          /\ dpc[d] = "publish" => result = NoOne

\* A request is in one place only: once claimed it is not in the mailbox, and
\* once its result is out it is neither in the mailbox nor captured any more.
OnceInv ==
    /\ \A d \in Daemons : dpc[d] = "read" => request # seen
    /\ \A c \in Clients :
          /\ capture = c => request # c
          /\ Offered(c) => ~Asked(c) /\ ~Capturing(c)

IInv == TypeOK /\ FreshInv /\ CaptureInv /\ OnceInv

(* -------------------------------- types --------------------------------- *)

\* Every step keeps the types, the trace lock with one command and the lifetime
\* lock with one daemon.
LEMMA TypeStep == TypeOK /\ [Next]_vars => TypeOK'
<1> SUFFICES ASSUME TypeOK, [Next]_vars PROVE TypeOK'
  OBVIOUS
<1> USE NoOneAssumption, BoundsAssumption
    DEF TypeOK, SomeClient, ClientPC, Locked, Setup, Waiting, Cleaning,
        DaemonPC, Running, Starting, Finishing, clientVars, daemonVars, files
<1>1. ASSUME NEW c \in Clients, ClientStep(c) \/ CrashClient(c)
      PROVE  TypeOK'
  <2>1. CASE Lock(c) BY <2>1 DEF Lock, GoC
  <2>2. CASE NotIdentified(c) BY <2>2 DEF NotIdentified, GoC
  <2>3. CASE Identify(c) BY <2>3 DEF Identify, GoC
  <2>4. CASE Fail(c) BY <2>4 DEF Fail, GoC
  <2>5. CASE StaleRequest(c) BY <2>5 DEF StaleRequest, GoC
  <2>6. CASE DropRequest(c) BY <2>6 DEF DropRequest, GoC
  <2>7. CASE StaleResult(c) BY <2>7 DEF StaleResult, GoC
  <2>8. CASE DropResult(c) BY <2>8 DEF DropResult, GoC
  <2>9. CASE CheckActive(c) BY <2>9 DEF CheckActive, GoC
  <2>10. CASE DropActive(c) BY <2>10 DEF DropActive, GoC
  <2>11. CASE CheckRequest(c) BY <2>11 DEF CheckRequest, GoC
  <2>12. CASE CheckResult(c) BY <2>12 DEF CheckResult, GoC
  <2>13. CASE DropPrior(c) BY <2>13 DEF DropPrior, GoC
  <2>14. CASE PublishRequest(c) BY <2>14 DEF PublishRequest, GoC
  <2>15. CASE ReadResult(c) BY <2>15 DEF ReadResult, GoC
  <2>16. CASE TakeResult(c) BY <2>16 DEF TakeResult, GoC
  <2>17. CASE PrintResult(c) BY <2>17 DEF PrintResult, GoC, Own
  <2>18. CASE CleanRequest(c) BY <2>18 DEF CleanRequest, GoC, Own
  <2>19. CASE CleanResult(c) BY <2>19 DEF CleanResult, GoC, Own
  <2>20. CASE CleanActive(c) BY <2>20 DEF CleanActive, GoC, Own
  <2>21. CASE CleaningFails(c) BY <2>21 DEF CleaningFails, GoC
  <2>22. CASE Release(c) BY <2>22 DEF Release, GoC
  <2>23. CASE CrashClient(c) BY <2>23 DEF CrashClient
  <2> QED
    BY <1>1, <2>1, <2>2, <2>3, <2>4, <2>5, <2>6, <2>7, <2>8, <2>9, <2>10,
       <2>11, <2>12, <2>13, <2>14, <2>15, <2>16, <2>17, <2>18, <2>19, <2>20,
       <2>21, <2>22, <2>23 DEF ClientStep
<1>2. ASSUME NEW d \in Daemons, DaemonStep(d) \/ CrashDaemon(d)
      PROVE  TypeOK'
  <2>1. CASE Launch(d) BY <2>1 DEF Launch, GoD, LifetimeHeld
  <2>2. CASE BindInstance(d) BY <2>2 DEF BindInstance, GoD
  <2>3. CASE PollStaleRequest(d) BY <2>3 DEF PollStaleRequest, GoD
  <2>4. CASE PollDropRequest(d) BY <2>4 DEF PollDropRequest, GoD
  <2>5. CASE PollStaleResult(d) BY <2>5 DEF PollStaleResult, GoD
  <2>6. CASE PollDropResult(d) BY <2>6 DEF PollDropResult, GoD
  <2>7. CASE RemoveOrphan(d) BY <2>7 DEF RemoveOrphan, GoD
  <2>8. CASE FindRequest(d) BY <2>8 DEF FindRequest, GoD
  <2>9. CASE Claim(d) BY <2>9 DEF Claim, GoD
  <2>10. CASE ReadRequest(d) BY <2>10 DEF ReadRequest, GoD
  <2>11. CASE Finish(d) BY <2>11 DEF Finish, GoD
  <2>12. CASE FinishStaleResult(d) BY <2>12 DEF FinishStaleResult, GoD
  <2>13. CASE FinishDropOld(d) BY <2>13 DEF FinishDropOld, GoD
  <2>14. CASE FinishCheck(d) BY <2>14 DEF FinishCheck, GoD
  <2>15. CASE PublishResult(d) BY <2>15 DEF PublishResult, GoD
  <2>16. CASE Unmark(d) BY <2>16 DEF Unmark, GoD
  <2>17. CASE Fault(d) BY <2>17 DEF Fault, GoD
  <2>18. CASE Stop(d) BY <2>18 DEF Stop, GoD
  <2>19. CASE Close(d) BY <2>19 DEF Close, GoD
  <2>20. CASE CrashDaemon(d) BY <2>20 DEF CrashDaemon
  <2> QED
    BY <1>2, <2>1, <2>2, <2>3, <2>4, <2>5, <2>6, <2>7, <2>8, <2>9, <2>10,
       <2>11, <2>12, <2>13, <2>14, <2>15, <2>16, <2>17, <2>18, <2>19, <2>20
       DEF DaemonStep, Poll
<1>3. CASE ExpireRequest \/ ExpireResult
  BY <1>3 DEF ExpireRequest, ExpireResult, Expire
<1>4. CASE UNCHANGED vars BY <1>4 DEF vars
<1> QED BY <1>1, <1>2, <1>3, <1>4 DEF Next

(* --------------------- the inductive invariant again -------------------- *)

\* Only the command itself names its request, and only once.
LEMMA FreshStep == IInv /\ [Next]_vars => FreshInv'
<1> SUFFICES ASSUME IInv, [Next]_vars PROVE FreshInv'
  OBVIOUS
<1> USE NoOneAssumption
    DEF IInv, TypeOK, FreshInv,
        SomeClient, ClientPC, Locked, Setup, Waiting, Cleaning, Asking,
        DaemonPC, Running, Starting, Finishing, clientVars, daemonVars, files
<1>1. ASSUME NEW c \in Clients, ClientStep(c) \/ CrashClient(c)
      PROVE  FreshInv'
  <2>1. CASE Lock(c) BY <2>1 DEF Lock, GoC
  <2>2. CASE NotIdentified(c) BY <2>2 DEF NotIdentified, GoC
  <2>3. CASE Identify(c) BY <2>3 DEF Identify, GoC
  <2>4. CASE Fail(c) BY <2>4 DEF Fail, GoC
  <2>5. CASE StaleRequest(c) BY <2>5 DEF StaleRequest, GoC
  <2>6. CASE DropRequest(c) BY <2>6 DEF DropRequest, GoC
  <2>7. CASE StaleResult(c) BY <2>7 DEF StaleResult, GoC
  <2>8. CASE DropResult(c) BY <2>8 DEF DropResult, GoC
  <2>9. CASE CheckActive(c) BY <2>9 DEF CheckActive, GoC
  <2>10. CASE DropActive(c) BY <2>10 DEF DropActive, GoC
  <2>11. CASE CheckRequest(c) BY <2>11 DEF CheckRequest, GoC
  <2>12. CASE CheckResult(c) BY <2>12 DEF CheckResult, GoC
  <2>13. CASE DropPrior(c) BY <2>13 DEF DropPrior, GoC
  <2>14. CASE PublishRequest(c) BY <2>14 DEF PublishRequest, GoC
  <2>15. CASE ReadResult(c) BY <2>15 DEF ReadResult, GoC
  <2>16. CASE TakeResult(c) BY <2>16 DEF TakeResult, GoC
  <2>17. CASE PrintResult(c) BY <2>17 DEF PrintResult, GoC, Own
  <2>18. CASE CleanRequest(c) BY <2>18 DEF CleanRequest, GoC, Own
  <2>19. CASE CleanResult(c) BY <2>19 DEF CleanResult, GoC, Own
  <2>20. CASE CleanActive(c) BY <2>20 DEF CleanActive, GoC, Own
  <2>21. CASE CleaningFails(c) BY <2>21 DEF CleaningFails, GoC
  <2>22. CASE Release(c) BY <2>22 DEF Release, GoC
  <2>23. CASE CrashClient(c) BY <2>23 DEF CrashClient
  <2> QED
    BY <1>1, <2>1, <2>2, <2>3, <2>4, <2>5, <2>6, <2>7, <2>8, <2>9, <2>10,
       <2>11, <2>12, <2>13, <2>14, <2>15, <2>16, <2>17, <2>18, <2>19, <2>20,
       <2>21, <2>22, <2>23 DEF ClientStep
<1>2. ASSUME NEW d \in Daemons, DaemonStep(d) \/ CrashDaemon(d)
      PROVE  FreshInv'
  <2>1. CASE Launch(d) BY <2>1 DEF Launch, GoD
  <2>2. CASE BindInstance(d) BY <2>2 DEF BindInstance, GoD
  <2>3. CASE PollStaleRequest(d) BY <2>3 DEF PollStaleRequest, GoD
  <2>4. CASE PollDropRequest(d) BY <2>4 DEF PollDropRequest, GoD
  <2>5. CASE PollStaleResult(d) BY <2>5 DEF PollStaleResult, GoD
  <2>6. CASE PollDropResult(d) BY <2>6 DEF PollDropResult, GoD
  <2>7. CASE RemoveOrphan(d) BY <2>7 DEF RemoveOrphan, GoD
  <2>8. CASE FindRequest(d) BY <2>8 DEF FindRequest, GoD
  <2>9. CASE Claim(d) BY <2>9 DEF Claim, GoD
  <2>10. CASE ReadRequest(d) BY <2>10 DEF ReadRequest, GoD
  <2>11. CASE Finish(d) BY <2>11 DEF Finish, GoD
  <2>12. CASE FinishStaleResult(d) BY <2>12 DEF FinishStaleResult, GoD
  <2>13. CASE FinishDropOld(d) BY <2>13 DEF FinishDropOld, GoD
  <2>14. CASE FinishCheck(d) BY <2>14 DEF FinishCheck, GoD
  <2>15. CASE PublishResult(d) BY <2>15 DEF PublishResult, GoD
  <2>16. CASE Unmark(d) BY <2>16 DEF Unmark, GoD
  <2>17. CASE Fault(d) BY <2>17 DEF Fault, GoD
  <2>18. CASE Stop(d) BY <2>18 DEF Stop, GoD
  <2>19. CASE Close(d) BY <2>19 DEF Close, GoD
  <2>20. CASE CrashDaemon(d) BY <2>20 DEF CrashDaemon
  <2> QED
    BY <1>2, <2>1, <2>2, <2>3, <2>4, <2>5, <2>6, <2>7, <2>8, <2>9, <2>10,
       <2>11, <2>12, <2>13, <2>14, <2>15, <2>16, <2>17, <2>18, <2>19, <2>20
       DEF DaemonStep, Poll
<1>3. CASE ExpireRequest \/ ExpireResult
  BY <1>3 DEF ExpireRequest, ExpireResult, Expire
<1>4. CASE UNCHANGED vars BY <1>4 DEF vars
<1> QED BY <1>1, <1>2, <1>3, <1>4 DEF Next

\* What a daemon has in memory agrees with where it is.
LEMMA CaptureStep == IInv /\ [Next]_vars => CaptureInv'
<1> SUFFICES ASSUME IInv, [Next]_vars PROVE CaptureInv'
  OBVIOUS
<1> USE NoOneAssumption
    DEF IInv, TypeOK, CaptureInv, LifetimeHeld,
        SomeClient, ClientPC, Locked, Setup, Waiting, Cleaning, Asking,
        DaemonPC, Running, Starting, Finishing, clientVars, daemonVars, files
<1>1. ASSUME NEW c \in Clients, ClientStep(c) \/ CrashClient(c)
      PROVE  CaptureInv'
  <2>1. CASE Lock(c) BY <2>1 DEF Lock, GoC
  <2>2. CASE NotIdentified(c) BY <2>2 DEF NotIdentified, GoC
  <2>3. CASE Identify(c) BY <2>3 DEF Identify, GoC
  <2>4. CASE Fail(c) BY <2>4 DEF Fail, GoC
  <2>5. CASE StaleRequest(c) BY <2>5 DEF StaleRequest, GoC
  <2>6. CASE DropRequest(c) BY <2>6 DEF DropRequest, GoC
  <2>7. CASE StaleResult(c) BY <2>7 DEF StaleResult, GoC
  <2>8. CASE DropResult(c) BY <2>8 DEF DropResult, GoC
  <2>9. CASE CheckActive(c) BY <2>9 DEF CheckActive, GoC
  <2>10. CASE DropActive(c) BY <2>10 DEF DropActive, GoC
  <2>11. CASE CheckRequest(c) BY <2>11 DEF CheckRequest, GoC
  <2>12. CASE CheckResult(c) BY <2>12 DEF CheckResult, GoC
  <2>13. CASE DropPrior(c) BY <2>13 DEF DropPrior, GoC
  <2>14. CASE PublishRequest(c) BY <2>14 DEF PublishRequest, GoC
  <2>15. CASE ReadResult(c) BY <2>15 DEF ReadResult, GoC
  <2>16. CASE TakeResult(c) BY <2>16 DEF TakeResult, GoC
  <2>17. CASE PrintResult(c) BY <2>17 DEF PrintResult, GoC, Own
  <2>18. CASE CleanRequest(c) BY <2>18 DEF CleanRequest, GoC, Own
  <2>19. CASE CleanResult(c) BY <2>19 DEF CleanResult, GoC, Own
  <2>20. CASE CleanActive(c) BY <2>20 DEF CleanActive, GoC, Own
  <2>21. CASE CleaningFails(c) BY <2>21 DEF CleaningFails, GoC
  <2>22. CASE Release(c) BY <2>22 DEF Release, GoC
  <2>23. CASE CrashClient(c) BY <2>23 DEF CrashClient
  <2> QED
    BY <1>1, <2>1, <2>2, <2>3, <2>4, <2>5, <2>6, <2>7, <2>8, <2>9, <2>10,
       <2>11, <2>12, <2>13, <2>14, <2>15, <2>16, <2>17, <2>18, <2>19, <2>20,
       <2>21, <2>22, <2>23 DEF ClientStep
<1>2. ASSUME NEW d \in Daemons, DaemonStep(d) \/ CrashDaemon(d)
      PROVE  CaptureInv'
  <2>1. CASE Launch(d) BY <2>1 DEF Launch, GoD
  <2>2. CASE BindInstance(d) BY <2>2 DEF BindInstance, GoD
  <2>3. CASE PollStaleRequest(d) BY <2>3 DEF PollStaleRequest, GoD
  <2>4. CASE PollDropRequest(d) BY <2>4 DEF PollDropRequest, GoD
  <2>5. CASE PollStaleResult(d) BY <2>5 DEF PollStaleResult, GoD
  <2>6. CASE PollDropResult(d) BY <2>6 DEF PollDropResult, GoD
  <2>7. CASE RemoveOrphan(d) BY <2>7 DEF RemoveOrphan, GoD
  <2>8. CASE FindRequest(d) BY <2>8 DEF FindRequest, GoD
  <2>9. CASE Claim(d) BY <2>9 DEF Claim, GoD
  <2>10. CASE ReadRequest(d) BY <2>10 DEF ReadRequest, GoD
  <2>11. CASE Finish(d) BY <2>11 DEF Finish, GoD
  <2>12. CASE FinishStaleResult(d) BY <2>12 DEF FinishStaleResult, GoD
  <2>13. CASE FinishDropOld(d) BY <2>13 DEF FinishDropOld, GoD
  <2>14. CASE FinishCheck(d) BY <2>14 DEF FinishCheck, GoD
  <2>15. CASE PublishResult(d) BY <2>15 DEF PublishResult, GoD
  <2>16. CASE Unmark(d) BY <2>16 DEF Unmark, GoD
  <2>17. CASE Fault(d) BY <2>17 DEF Fault, GoD
  <2>18. CASE Stop(d) BY <2>18 DEF Stop, GoD
  <2>19. CASE Close(d) BY <2>19 DEF Close, GoD
  <2>20. CASE CrashDaemon(d) BY <2>20 DEF CrashDaemon
  <2> QED
    BY <1>2, <2>1, <2>2, <2>3, <2>4, <2>5, <2>6, <2>7, <2>8, <2>9, <2>10,
       <2>11, <2>12, <2>13, <2>14, <2>15, <2>16, <2>17, <2>18, <2>19, <2>20
       DEF DaemonStep, Poll
<1>3. CASE ExpireRequest \/ ExpireResult
  BY <1>3 DEF ExpireRequest, ExpireResult, Expire
<1>4. CASE UNCHANGED vars BY <1>4 DEF vars
<1> QED BY <1>1, <1>2, <1>3, <1>4 DEF Next

\* No request is in two places after a step.
LEMMA OnceStep == IInv /\ [Next]_vars => OnceInv'
<1> SUFFICES ASSUME IInv, [Next]_vars PROVE OnceInv'
  OBVIOUS
<1> USE NoOneAssumption
    DEF IInv, TypeOK, FreshInv, CaptureInv, OnceInv, Asked, Capturing, Offered,
        SomeClient, ClientPC, Locked, Setup, Waiting, Cleaning, Asking,
        DaemonPC, Running, Starting, Finishing, clientVars, daemonVars, files
<1>1. ASSUME NEW c \in Clients, ClientStep(c) \/ CrashClient(c)
      PROVE  OnceInv'
  <2>1. CASE Lock(c) BY <2>1 DEF Lock, GoC
  <2>2. CASE NotIdentified(c) BY <2>2 DEF NotIdentified, GoC
  <2>3. CASE Identify(c) BY <2>3 DEF Identify, GoC
  <2>4. CASE Fail(c) BY <2>4 DEF Fail, GoC
  <2>5. CASE StaleRequest(c) BY <2>5 DEF StaleRequest, GoC
  <2>6. CASE DropRequest(c) BY <2>6 DEF DropRequest, GoC
  <2>7. CASE StaleResult(c) BY <2>7 DEF StaleResult, GoC
  <2>8. CASE DropResult(c) BY <2>8 DEF DropResult, GoC
  <2>9. CASE CheckActive(c) BY <2>9 DEF CheckActive, GoC
  <2>10. CASE DropActive(c) BY <2>10 DEF DropActive, GoC
  <2>11. CASE CheckRequest(c) BY <2>11 DEF CheckRequest, GoC
  <2>12. CASE CheckResult(c) BY <2>12 DEF CheckResult, GoC
  <2>13. CASE DropPrior(c) BY <2>13 DEF DropPrior, GoC
  <2>14. CASE PublishRequest(c) BY <2>14 DEF PublishRequest, GoC
  <2>15. CASE ReadResult(c) BY <2>15 DEF ReadResult, GoC
  <2>16. CASE TakeResult(c) BY <2>16 DEF TakeResult, GoC
  <2>17. CASE PrintResult(c) BY <2>17 DEF PrintResult, GoC, Own
  <2>18. CASE CleanRequest(c) BY <2>18 DEF CleanRequest, GoC, Own
  <2>19. CASE CleanResult(c) BY <2>19 DEF CleanResult, GoC, Own
  <2>20. CASE CleanActive(c) BY <2>20 DEF CleanActive, GoC, Own
  <2>21. CASE CleaningFails(c) BY <2>21 DEF CleaningFails, GoC
  <2>22. CASE Release(c) BY <2>22 DEF Release, GoC
  <2>23. CASE CrashClient(c) BY <2>23 DEF CrashClient
  <2> QED
    BY <1>1, <2>1, <2>2, <2>3, <2>4, <2>5, <2>6, <2>7, <2>8, <2>9, <2>10,
       <2>11, <2>12, <2>13, <2>14, <2>15, <2>16, <2>17, <2>18, <2>19, <2>20,
       <2>21, <2>22, <2>23 DEF ClientStep
<1>2. ASSUME NEW d \in Daemons, DaemonStep(d) \/ CrashDaemon(d)
      PROVE  OnceInv'
  <2>1. CASE Launch(d) BY <2>1 DEF Launch, GoD
  <2>2. CASE BindInstance(d) BY <2>2 DEF BindInstance, GoD
  <2>3. CASE PollStaleRequest(d) BY <2>3 DEF PollStaleRequest, GoD
  <2>4. CASE PollDropRequest(d) BY <2>4 DEF PollDropRequest, GoD
  <2>5. CASE PollStaleResult(d) BY <2>5 DEF PollStaleResult, GoD
  <2>6. CASE PollDropResult(d) BY <2>6 DEF PollDropResult, GoD
  <2>7. CASE RemoveOrphan(d) BY <2>7 DEF RemoveOrphan, GoD
  <2>8. CASE FindRequest(d) BY <2>8 DEF FindRequest, GoD
  <2>9. CASE Claim(d) BY <2>9 DEF Claim, GoD
  <2>10. CASE ReadRequest(d) BY <2>10 DEF ReadRequest, GoD
  <2>11. CASE Finish(d) BY <2>11 DEF Finish, GoD
  <2>12. CASE FinishStaleResult(d) BY <2>12 DEF FinishStaleResult, GoD
  <2>13. CASE FinishDropOld(d) BY <2>13 DEF FinishDropOld, GoD
  <2>14. CASE FinishCheck(d) BY <2>14 DEF FinishCheck, GoD
  <2>15. CASE PublishResult(d) BY <2>15 DEF PublishResult, GoD
  <2>16. CASE Unmark(d) BY <2>16 DEF Unmark, GoD
  <2>17. CASE Fault(d) BY <2>17 DEF Fault, GoD
  <2>18. CASE Stop(d) BY <2>18 DEF Stop, GoD
  <2>19. CASE Close(d) BY <2>19 DEF Close, GoD
  <2>20. CASE CrashDaemon(d) BY <2>20 DEF CrashDaemon
  <2> QED
    BY <1>2, <2>1, <2>2, <2>3, <2>4, <2>5, <2>6, <2>7, <2>8, <2>9, <2>10,
       <2>11, <2>12, <2>13, <2>14, <2>15, <2>16, <2>17, <2>18, <2>19, <2>20
       DEF DaemonStep, Poll
<1>3. CASE ExpireRequest \/ ExpireResult
  BY <1>3 DEF ExpireRequest, ExpireResult, Expire
<1>4. CASE UNCHANGED vars BY <1>4 DEF vars
<1> QED BY <1>1, <1>2, <1>3, <1>4 DEF Next

(* ----------------------------- refinement ------------------------------- *)

\* At most the request of c is given up, and everything else stays.
GivesUp(c) ==
    \A b \in Clients :
        \/ Stage(b)' = Stage(b)
        \/ b = c /\ Stage(b) # "delivered" /\ Stage(b)' = "over"

\* Only the request of c goes on, from one stage to another.
Goes(c, from, to) ==
    /\ Stage(c) = from /\ Stage(c)' = to
    /\ \A b \in Clients \ {c} : Stage(b)' = Stage(b)

\* Every command is at one of the stages of OneShot.
LEMMA StageType == \A c \in Clients : Stage(c) \in Promise!Stages
BY DEF Stage, Promise!Stages

\* Giving one request up is a step of OneShot or a stutter.
LEMMA GivingUp == ASSUME NEW c, GivesUp(c)
                  PROVE  [Promise!Next]_stages
<1>1. CASE \A b \in Clients : Stage(b)' = Stage(b)
  BY <1>1 DEF stages
<1>2. CASE ~\A b \in Clients : Stage(b)' = Stage(b)
  <2>1. c \in Clients /\ Stage(c) # "delivered" /\ Stage(c)' = "over"
    BY <1>2 DEF GivesUp
  <2>2. stages' = [stages EXCEPT ![c] = "over"]
    BY <2>1 DEF GivesUp, stages
  <2>3. Promise!Abandon(c)
    BY <2>1, <2>2, StageType DEF Promise!Abandon, Promise!Move, stages
  <2> QED BY <2>1, <2>3 DEF Promise!Next
<1> QED BY <1>1, <1>2

\* So is one request going on to its next stage.
LEMMA GoingOn ==
    ASSUME NEW c \in Clients,
           \/ Goes(c, "idle", "asked")
           \/ /\ Goes(c, "asked", "capturing")
              /\ \A b \in Clients : Stage(b) # "capturing"
           \/ Goes(c, "capturing", "offered")
           \/ Goes(c, "offered", "delivered")
    PROVE  [Promise!Next]_stages
<1>1. stages' = [stages EXCEPT ![c] = Stage(c)'] /\ stages[c] = Stage(c)
  BY DEF stages, Goes
<1>2. Promise!Ask(c) \/ Promise!Begin(c) \/ Promise!Offer(c)
      \/ Promise!Deliver(c)
  BY <1>1 DEF Goes, stages, Promise!Ask, Promise!Begin, Promise!Offer,
              Promise!Deliver, Promise!Move
<1> QED BY <1>2 DEF Promise!Next

\* Every step of the mailbox is a step of OneShot, or changes nothing there.
LEMMA PromiseStep == IInv /\ [Next]_vars => [Promise!Next]_stages
<1> SUFFICES ASSUME IInv, [Next]_vars PROVE [Promise!Next]_stages
  OBVIOUS
<1> USE NoOneAssumption
    DEF IInv, TypeOK, FreshInv, CaptureInv, OnceInv, LifetimeHeld,
        GivesUp, Goes, Stage, Asked, Capturing, Offered,
        SomeClient, ClientPC, Locked, Setup, Waiting, Cleaning, Asking,
        DaemonPC, Running, Starting, Finishing, clientVars, daemonVars, files
<1>1. ASSUME NEW c \in Clients, ClientStep(c) \/ CrashClient(c)
      PROVE  [Promise!Next]_stages
  <2>1. CASE Lock(c)
    <3> GivesUp(c) BY <2>1 DEF Lock, GoC
    <3> QED BY GivingUp
  <2>2. CASE NotIdentified(c)
    <3> GivesUp(c) BY <2>2 DEF NotIdentified, GoC
    <3> QED BY GivingUp
  <2>3. CASE Identify(c)
    <3> GivesUp(c) BY <2>3 DEF Identify, GoC
    <3> QED BY GivingUp
  <2>4. CASE Fail(c)
    <3> GivesUp(c) BY <2>4 DEF Fail, GoC
    <3> QED BY GivingUp
  <2>5. CASE StaleRequest(c)
    <3> GivesUp(c) BY <2>5 DEF StaleRequest, GoC
    <3> QED BY GivingUp
  <2>6. CASE DropRequest(c)
    <3> GivesUp(request) BY <2>6 DEF DropRequest, GoC
    <3> QED BY GivingUp
  <2>7. CASE StaleResult(c)
    <3> GivesUp(c) BY <2>7 DEF StaleResult, GoC
    <3> QED BY GivingUp
  <2>8. CASE DropResult(c)
    <3> GivesUp(result) BY <2>8 DEF DropResult, GoC
    <3> QED BY GivingUp
  <2>9. CASE CheckActive(c)
    <3> GivesUp(c) BY <2>9 DEF CheckActive, GoC
    <3> QED BY GivingUp
  <2>10. CASE DropActive(c)
    <3> GivesUp(active) BY <2>10 DEF DropActive, GoC
    <3> QED BY GivingUp
  <2>11. CASE CheckRequest(c)
    <3> GivesUp(c) BY <2>11 DEF CheckRequest, GoC
    <3> QED BY GivingUp
  <2>12. CASE CheckResult(c)
    <3> GivesUp(c) BY <2>12 DEF CheckResult, GoC
    <3> QED BY GivingUp
  <2>13. CASE DropPrior(c)
    <3> GivesUp(result) BY <2>13 DEF DropPrior, GoC
    <3> QED BY GivingUp
  <2>14. CASE PublishRequest(c)
    <3> Goes(c, "idle", "asked") BY <2>14 DEF PublishRequest, GoC
    <3> QED BY GoingOn
  <2>15. CASE ReadResult(c)
    <3> GivesUp(c) BY <2>15 DEF ReadResult, GoC
    <3> QED BY GivingUp
  <2>16. CASE TakeResult(c)
    <3> GivesUp(result) BY <2>16 DEF TakeResult, GoC
    <3> QED BY GivingUp
  <2>17. CASE PrintResult(c)
    <3> Goes(c, "offered", "delivered") BY <2>17 DEF PrintResult, GoC, Own
    <3> QED BY GoingOn
  <2>18. CASE CleanRequest(c)
    <3> GivesUp(c) BY <2>18 DEF CleanRequest, GoC, Own
    <3> QED BY GivingUp
  <2>19. CASE CleanResult(c)
    <3> GivesUp(c) BY <2>19 DEF CleanResult, GoC, Own
    <3> QED BY GivingUp
  <2>20. CASE CleanActive(c)
    <3> GivesUp(c) BY <2>20 DEF CleanActive, GoC, Own
    <3> QED BY GivingUp
  <2>21. CASE CleaningFails(c)
    <3> GivesUp(c) BY <2>21 DEF CleaningFails, GoC
    <3> QED BY GivingUp
  <2>22. CASE Release(c)
    <3> GivesUp(c) BY <2>22 DEF Release, GoC
    <3> QED BY GivingUp
  <2>23. CASE CrashClient(c)
    <3> GivesUp(c) BY <2>23 DEF CrashClient
    <3> QED BY GivingUp
  <2> QED
    BY <1>1, <2>1, <2>2, <2>3, <2>4, <2>5, <2>6, <2>7, <2>8, <2>9, <2>10,
       <2>11, <2>12, <2>13, <2>14, <2>15, <2>16, <2>17, <2>18, <2>19, <2>20,
       <2>21, <2>22, <2>23 DEF ClientStep
<1>2. ASSUME NEW d \in Daemons, DaemonStep(d) \/ CrashDaemon(d)
      PROVE  [Promise!Next]_stages
  <2>1. CASE Launch(d)
    <3> GivesUp(NoOne) BY <2>1 DEF Launch, GoD
    <3> QED BY GivingUp
  <2>2. CASE BindInstance(d)
    <3> GivesUp(NoOne) BY <2>2 DEF BindInstance, GoD
    <3> QED BY GivingUp
  <2>3. CASE PollStaleRequest(d)
    <3> GivesUp(NoOne) BY <2>3 DEF PollStaleRequest, GoD
    <3> QED BY GivingUp
  <2>4. CASE PollDropRequest(d)
    <3> GivesUp(request) BY <2>4 DEF PollDropRequest, GoD
    <3> QED BY GivingUp
  <2>5. CASE PollStaleResult(d)
    <3> GivesUp(NoOne) BY <2>5 DEF PollStaleResult, GoD
    <3> QED BY GivingUp
  <2>6. CASE PollDropResult(d)
    <3> GivesUp(result) BY <2>6 DEF PollDropResult, GoD
    <3> QED BY GivingUp
  <2>7. CASE RemoveOrphan(d)
    <3> GivesUp(NoOne) BY <2>7 DEF RemoveOrphan, GoD
    <3> QED BY GivingUp
  <2>8. CASE FindRequest(d)
    <3> GivesUp(NoOne) BY <2>8 DEF FindRequest, GoD
    <3> QED BY GivingUp
  <2>9. CASE Claim(d)
    <3> GivesUp(request) BY <2>9 DEF Claim, GoD
    <3> QED BY GivingUp
  <2>10. CASE ReadRequest(d)
    <3>1. CASE capture' = seen /\ Stage(seen) = "asked"
      <4>1. PICK c \in Clients : c = seen
        BY <2>10 DEF ReadRequest, GoD
      <4>2. /\ Goes(c, "asked", "capturing")
            /\ \A b \in Clients : Stage(b) # "capturing"
        BY <2>10, <3>1, <4>1 DEF ReadRequest, GoD
      <4> QED BY <4>2, GoingOn
    <3>2. CASE ~(capture' = seen /\ Stage(seen) = "asked")
      <4> GivesUp(seen) BY <2>10, <3>2 DEF ReadRequest, GoD
      <4> QED BY GivingUp
    <3> QED BY <3>1, <3>2
  <2>11. CASE Finish(d)
    <3> GivesUp(NoOne) BY <2>11 DEF Finish, GoD
    <3> QED BY GivingUp
  <2>12. CASE FinishStaleResult(d)
    <3> GivesUp(NoOne) BY <2>12 DEF FinishStaleResult, GoD
    <3> QED BY GivingUp
  <2>13. CASE FinishDropOld(d)
    <3> GivesUp(IF result = NoOne THEN capture ELSE result)
      BY <2>13 DEF FinishDropOld, GoD
    <3> QED BY GivingUp
  <2>14. CASE FinishCheck(d)
    <3> GivesUp(capture) BY <2>14 DEF FinishCheck, GoD
    <3> QED BY GivingUp
  <2>15. CASE PublishResult(d)
    <3>1. PICK c \in Clients : c = capture
      BY <2>15 DEF PublishResult, GoD
    <3>2. CASE Stage(c) = "capturing"
      <4> Goes(c, "capturing", "offered")
        BY <2>15, <3>1, <3>2 DEF PublishResult, GoD
      <4> QED BY GoingOn
    <3>3. CASE Stage(c) # "capturing"
      <4> GivesUp(c) BY <2>15, <3>1, <3>3 DEF PublishResult, GoD
      <4> QED BY GivingUp
    <3> QED BY <3>2, <3>3
  <2>16. CASE Unmark(d)
    <3> GivesUp(capture) BY <2>16 DEF Unmark, GoD
    <3> QED BY GivingUp
  <2>17. CASE Fault(d)
    <3> GivesUp(IF dpc[d] = "read" THEN seen ELSE capture)
      BY <2>17 DEF Fault, GoD
    <3> QED BY GivingUp
  <2>18. CASE Stop(d)
    <3> GivesUp(NoOne) BY <2>18 DEF Stop, GoD
    <3> QED BY GivingUp
  <2>19. CASE Close(d)
    <3> GivesUp(capture) BY <2>19 DEF Close, GoD
    <3> QED BY GivingUp
  <2>20. CASE CrashDaemon(d)
    <3> GivesUp(IF dpc[d] = "read" THEN seen ELSE capture)
      BY <2>20 DEF CrashDaemon
    <3> QED BY GivingUp
  <2> QED
    BY <1>2, <2>1, <2>2, <2>3, <2>4, <2>5, <2>6, <2>7, <2>8, <2>9, <2>10,
       <2>11, <2>12, <2>13, <2>14, <2>15, <2>16, <2>17, <2>18, <2>19, <2>20
       DEF DaemonStep, Poll
<1>3. CASE ExpireRequest \/ ExpireResult
  <2> GivesUp(NoOne) BY <1>3 DEF ExpireRequest, ExpireResult, Expire
  <2> QED BY GivingUp
<1>4. CASE UNCHANGED vars
  <2> GivesUp(NoOne) BY <1>4 DEF vars
  <2> QED BY GivingUp
<1> QED BY <1>1, <1>2, <1>3, <1>4 DEF Next

(* ------------------------------ theorems -------------------------------- *)

\* It holds at the start.
LEMMA InitInv == Init => IInv
<1> SUFFICES ASSUME Init PROVE IInv
  OBVIOUS
<1> USE NoOneAssumption, BoundsAssumption DEF Init
<1>1. TypeOK
  <2>1. \A c \in Clients : cpc[c] \notin Locked
    BY DEF Locked, Setup, Waiting, Cleaning
  <2>2. expired \in [{"request", "result"} -> SUBSET Clients]
    OBVIOUS
  <2>3. crashes \in 0..MaxCrashes /\ faults \in 0..MaxFaults
    OBVIOUS
  <2>4. cpc \in [Clients -> ClientPC] /\ dpc \in [Daemons -> DaemonPC]
    BY DEF ClientPC, DaemonPC
  <2>5. \A d, e \in Daemons : {dpc[d], dpc[e]} \cap {"off", "gone"} = {}
         => d = e
    OBVIOUS
  <2> QED BY <2>1, <2>2, <2>3, <2>4, <2>5 DEF TypeOK, SomeClient
<1>2. FreshInv /\ CaptureInv /\ OnceInv
  BY DEF FreshInv, CaptureInv, OnceInv, LifetimeHeld, Asked, Capturing,
         Offered, Asking, Waiting, Starting, Finishing
<1> QED BY <1>1, <1>2 DEF IInv

\* The start of the mailbox is a start of OneShot.
LEMMA InitPromise == Init => Promise!Init
BY NoOneAssumption
   DEF Init, Promise!Init, stages, Stage, Asked, Capturing, Offered, Asking

\* The inductive invariant holds in every behaviour.
THEOREM Inductive == Spec => []IInv
<1>1. IInv /\ [Next]_vars => IInv'
  BY TypeStep, FreshStep, CaptureStep, OnceStep DEF IInv
<1> QED BY InitInv, <1>1, PTL DEF Spec

\* The trace lock is held by exactly one of the commands that are past it, and
\* at most one daemon lives, whatever is killed and whatever fails.
THEOREM TypeCorrect == Spec => []TypeOK
BY Inductive, PTL DEF IInv

\* The mailbox keeps the promise of OneShot for any number of commands,
\* daemons, crashes and faults: captures never overlap, a request is captured
\* once, and its result goes to the command that asked, once.
THEOREM Refinement == Spec => KeepsPromise
<1>1. Spec => []IInv
  BY Inductive
<1> QED
  BY <1>1, InitPromise, PromiseStep, PTL DEF Spec, KeepsPromise, Promise!Spec

(* ------------------------------ the marker ------------------------------ *)

\* Not yet two interrupted commands.
Few == Cardinality(Interrupted) < 2

\* While a daemon lives, whoever asks asks it: a command that is past its
\* question and holds the trace lock is bound to every living daemon that some
\* command is bound to, and a capture is the living daemon's own.
BoundInv ==
    /\ \A c \in Clients, d \in Daemons : dpc[d] = "off" => bound[c] # d
    /\ \A b, c \in Clients, d \in Daemons :
          /\ cpc[c] \in Setup \cup Waiting \cup Cleaning
          /\ bound[b] = d /\ dpc[d] # "gone"
          => bound[c] = d
    /\ capture # NoOne =>
          \E d \in Daemons : dpc[d] \notin {"off", "gone"} /\ bound[capture] = d

\* A request in the mailbox belongs to a command that waits or is about to
\* withdraw it, or to one that was interrupted.
RequestInv ==
    \A c \in Clients :
        request = c =>
            cpc[c] \in {"wait", "cleanRequest", "abort", "crashed", "aborted"}

\* The command has looked at the marker and has not published its request.
Checked == {"request", "result", "dropPrior", "publish"}

\* Beside a request that is there or about to be, a marker can only be that of
\* an interrupted command.
OrphanInv ==
    active # NoOne /\ (request # NoOne \/ \E c \in Clients : cpc[c] \in Checked)
    => active \in Interrupted

\* The living daemon is about to start the capture that c asked it for.
Pending(c) ==
    /\ seen = c /\ active = c
    /\ \E d \in Daemons : dpc[d] = "read" /\ bound[c] = d

\* From its look at the marker until it stops waiting, a command meets no
\* capture but its own and those of interrupted commands.
ClearInv ==
    \A b, c \in Clients :
        /\ b # c /\ cpc[c] \in Checked \cup {"dropActive", "wait"}
        /\ capture = b \/ Pending(b)
        => b \in Interrupted

\* While a command is about to remove a marker it took for a dead daemon's,
\* the living daemon captures nothing and finds nothing to capture.
DropInv ==
    Few => \A c \in Clients :
        cpc[c] = "dropActive" =>
            /\ capture = NoOne
            /\ \A b \in Clients : ~Pending(b)
            /\ request # NoOne =>
                  \A d \in Daemons : bound[request] = d => dpc[d] = "gone"

\* The marker stands for a capture whose command was not interrupted, and for
\* every capture while few commands were.
KeptInv ==
    capture # NoOne /\ (capture \notin Interrupted \/ Few) => active = capture

MarkerInv ==
    /\ IsFiniteSet(Interrupted)
    /\ BoundInv /\ RequestInv /\ OrphanInv /\ ClearInv /\ DropInv /\ KeptInv

\* At most one command joins the interrupted, and none leaves them.
Joins ==
    \E c : /\ Interrupted \subseteq Interrupted'
          /\ Interrupted' \subseteq Interrupted \cup {c}

\* Only a command that is killed or fails to clean up is interrupted, for good.
LEMMA JoinStep == TypeOK /\ [Next]_vars => Joins
<1> SUFFICES ASSUME TypeOK, [Next]_vars PROVE Joins
  OBVIOUS
<1> USE DEF TypeOK, Joins, Interrupted, Locked, Setup, Waiting, Cleaning,
           clientVars, daemonVars, files
<1>1. ASSUME NEW c \in Clients, ClientStep(c) \/ CrashClient(c)
      PROVE  Joins
  <2>1. CASE Lock(c) BY <2>1 DEF Lock, GoC
  <2>2. CASE NotIdentified(c) BY <2>2 DEF NotIdentified, GoC
  <2>3. CASE Identify(c) BY <2>3 DEF Identify, GoC
  <2>4. CASE Fail(c) BY <2>4 DEF Fail, GoC
  <2>5. CASE StaleRequest(c) BY <2>5 DEF StaleRequest, GoC
  <2>6. CASE DropRequest(c) BY <2>6 DEF DropRequest, GoC
  <2>7. CASE StaleResult(c) BY <2>7 DEF StaleResult, GoC
  <2>8. CASE DropResult(c) BY <2>8 DEF DropResult, GoC
  <2>9. CASE CheckActive(c) BY <2>9 DEF CheckActive, GoC
  <2>10. CASE DropActive(c) BY <2>10 DEF DropActive, GoC
  <2>11. CASE CheckRequest(c) BY <2>11 DEF CheckRequest, GoC
  <2>12. CASE CheckResult(c) BY <2>12 DEF CheckResult, GoC
  <2>13. CASE DropPrior(c) BY <2>13 DEF DropPrior, GoC
  <2>14. CASE PublishRequest(c) BY <2>14 DEF PublishRequest, GoC
  <2>15. CASE ReadResult(c) BY <2>15 DEF ReadResult, GoC
  <2>16. CASE TakeResult(c) BY <2>16 DEF TakeResult, GoC
  <2>17. CASE PrintResult(c) BY <2>17 DEF PrintResult, GoC, Own
  <2>18. CASE CleanRequest(c) BY <2>18 DEF CleanRequest, GoC, Own
  <2>19. CASE CleanResult(c) BY <2>19 DEF CleanResult, GoC, Own
  <2>20. CASE CleanActive(c) BY <2>20 DEF CleanActive, GoC, Own
  <2>21. CASE CleaningFails(c) BY <2>21 DEF CleaningFails, GoC
  <2>22. CASE Release(c) BY <2>22 DEF Release, GoC
  <2>23. CASE CrashClient(c) BY <2>23 DEF CrashClient
  <2> QED
    BY <1>1, <2>1, <2>2, <2>3, <2>4, <2>5, <2>6, <2>7, <2>8, <2>9, <2>10,
       <2>11, <2>12, <2>13, <2>14, <2>15, <2>16, <2>17, <2>18, <2>19, <2>20,
       <2>21, <2>22, <2>23
       DEF ClientStep
<1>2. ASSUME NEW d \in Daemons, DaemonStep(d) \/ CrashDaemon(d)
      PROVE  Joins
  <2>1. CASE Launch(d) BY <2>1 DEF Launch, GoD
  <2>2. CASE BindInstance(d) BY <2>2 DEF BindInstance, GoD
  <2>3. CASE PollStaleRequest(d) BY <2>3 DEF PollStaleRequest, GoD
  <2>4. CASE PollDropRequest(d) BY <2>4 DEF PollDropRequest, GoD
  <2>5. CASE PollStaleResult(d) BY <2>5 DEF PollStaleResult, GoD
  <2>6. CASE PollDropResult(d) BY <2>6 DEF PollDropResult, GoD
  <2>7. CASE RemoveOrphan(d) BY <2>7 DEF RemoveOrphan, GoD
  <2>8. CASE FindRequest(d) BY <2>8 DEF FindRequest, GoD
  <2>9. CASE Claim(d) BY <2>9 DEF Claim, GoD
  <2>10. CASE ReadRequest(d) BY <2>10 DEF ReadRequest, GoD
  <2>11. CASE Finish(d) BY <2>11 DEF Finish, GoD
  <2>12. CASE FinishStaleResult(d) BY <2>12 DEF FinishStaleResult, GoD
  <2>13. CASE FinishDropOld(d) BY <2>13 DEF FinishDropOld, GoD
  <2>14. CASE FinishCheck(d) BY <2>14 DEF FinishCheck, GoD
  <2>15. CASE PublishResult(d) BY <2>15 DEF PublishResult, GoD
  <2>16. CASE Unmark(d) BY <2>16 DEF Unmark, GoD
  <2>17. CASE Fault(d) BY <2>17 DEF Fault, GoD
  <2>18. CASE Stop(d) BY <2>18 DEF Stop, GoD
  <2>19. CASE Close(d) BY <2>19 DEF Close, GoD
  <2>20. CASE CrashDaemon(d) BY <2>20 DEF CrashDaemon
  <2> QED
    BY <1>2, <2>1, <2>2, <2>3, <2>4, <2>5, <2>6, <2>7, <2>8, <2>9, <2>10,
       <2>11, <2>12, <2>13, <2>14, <2>15, <2>16, <2>17, <2>18, <2>19, <2>20
       DEF DaemonStep, Poll
<1>3. CASE ExpireRequest \/ ExpireResult
  BY <1>3 DEF ExpireRequest, ExpireResult, Expire
<1>4. CASE UNCHANGED vars BY <1>4 DEF vars
<1> QED BY <1>1, <1>2, <1>3, <1>4 DEF Next

\* Two interrupted commands are not few.
LEMMA NotFew ==
    ASSUME IsFiniteSet(Interrupted), Few
    PROVE  \A b, c \in Interrupted : b = c
<1> SUFFICES ASSUME NEW b \in Interrupted, NEW c \in Interrupted, b # c
             PROVE  FALSE
  OBVIOUS
<1>1. IsFiniteSet({b, c}) /\ Cardinality({b, c}) = 2
  <2>1. IsFiniteSet({c}) /\ Cardinality({c}) = 1
    BY FS_Singleton
  <2>2. {b, c} = {c} \cup {b} /\ b \notin {c}
    OBVIOUS
  <2> QED BY <2>1, <2>2, FS_AddElement
<1>2. Cardinality({b, c}) <= Cardinality(Interrupted)
  BY FS_Subset
<1> QED BY <1>1, <1>2, FS_CardinalityType DEF Few

\* Interrupted commands stay so, so they are few only if they were.
LEMMA FewStep ==
    ASSUME IsFiniteSet(Interrupted), TypeOK, [Next]_vars
    PROVE  /\ IsFiniteSet(Interrupted)'
           /\ Interrupted \subseteq Interrupted'
           /\ Few' => Few
<1>1. PICK c : /\ Interrupted \subseteq Interrupted'
               /\ Interrupted' \subseteq Interrupted \cup {c}
  BY JoinStep DEF Joins
<1>2. IsFiniteSet(Interrupted \cup {c})
  BY FS_AddElement
<1>3. IsFiniteSet(Interrupted')
  BY <1>1, <1>2, FS_Subset
<1>4. Cardinality(Interrupted) <= Cardinality(Interrupted')
  BY <1>1, <1>3, FS_Subset
<1> QED BY <1>1, <1>3, <1>4, FS_CardinalityType DEF Few

\* Whoever asks while a daemon lives asks that daemon.
LEMMA BoundStep == IInv /\ BoundInv /\ [Next]_vars => BoundInv'
<1> SUFFICES ASSUME IInv /\ BoundInv, [Next]_vars PROVE BoundInv'
  OBVIOUS
<1> USE NoOneAssumption
    DEF IInv, TypeOK, CaptureInv, BoundInv, LifetimeHeld, Published,
        SomeClient, ClientPC, Locked, Setup, Waiting, Cleaning, Asking,
        DaemonPC, Running, Starting, Finishing, clientVars, daemonVars, files
<1>1. ASSUME NEW c \in Clients, ClientStep(c) \/ CrashClient(c)
      PROVE  BoundInv'
  <2>1. CASE Lock(c) BY <2>1 DEF Lock, GoC
  <2>2. CASE NotIdentified(c) BY <2>2 DEF NotIdentified, GoC
  <2>3. CASE Identify(c) BY <2>3 DEF Identify, GoC
  <2>4. CASE Fail(c) BY <2>4 DEF Fail, GoC
  <2>5. CASE StaleRequest(c) BY <2>5 DEF StaleRequest, GoC
  <2>6. CASE DropRequest(c) BY <2>6 DEF DropRequest, GoC
  <2>7. CASE StaleResult(c) BY <2>7 DEF StaleResult, GoC
  <2>8. CASE DropResult(c) BY <2>8 DEF DropResult, GoC
  <2>9. CASE CheckActive(c) BY <2>9 DEF CheckActive, GoC
  <2>10. CASE DropActive(c) BY <2>10 DEF DropActive, GoC
  <2>11. CASE CheckRequest(c) BY <2>11 DEF CheckRequest, GoC
  <2>12. CASE CheckResult(c) BY <2>12 DEF CheckResult, GoC
  <2>13. CASE DropPrior(c) BY <2>13 DEF DropPrior, GoC
  <2>14. CASE PublishRequest(c) BY <2>14 DEF PublishRequest, GoC
  <2>15. CASE ReadResult(c) BY <2>15 DEF ReadResult, GoC
  <2>16. CASE TakeResult(c) BY <2>16 DEF TakeResult, GoC
  <2>17. CASE PrintResult(c) BY <2>17 DEF PrintResult, GoC, Own
  <2>18. CASE CleanRequest(c) BY <2>18 DEF CleanRequest, GoC, Own
  <2>19. CASE CleanResult(c) BY <2>19 DEF CleanResult, GoC, Own
  <2>20. CASE CleanActive(c) BY <2>20 DEF CleanActive, GoC, Own
  <2>21. CASE CleaningFails(c) BY <2>21 DEF CleaningFails, GoC
  <2>22. CASE Release(c) BY <2>22 DEF Release, GoC
  <2>23. CASE CrashClient(c) BY <2>23 DEF CrashClient
  <2> QED
    BY <1>1, <2>1, <2>2, <2>3, <2>4, <2>5, <2>6, <2>7, <2>8, <2>9, <2>10,
       <2>11, <2>12, <2>13, <2>14, <2>15, <2>16, <2>17, <2>18, <2>19, <2>20,
       <2>21, <2>22, <2>23
       DEF ClientStep
<1>2. ASSUME NEW d \in Daemons, DaemonStep(d) \/ CrashDaemon(d)
      PROVE  BoundInv'
  <2>1. CASE Launch(d) BY <2>1 DEF Launch, GoD
  <2>2. CASE BindInstance(d) BY <2>2 DEF BindInstance, GoD
  <2>3. CASE PollStaleRequest(d) BY <2>3 DEF PollStaleRequest, GoD
  <2>4. CASE PollDropRequest(d) BY <2>4 DEF PollDropRequest, GoD
  <2>5. CASE PollStaleResult(d) BY <2>5 DEF PollStaleResult, GoD
  <2>6. CASE PollDropResult(d) BY <2>6 DEF PollDropResult, GoD
  <2>7. CASE RemoveOrphan(d) BY <2>7 DEF RemoveOrphan, GoD
  <2>8. CASE FindRequest(d) BY <2>8 DEF FindRequest, GoD
  <2>9. CASE Claim(d) BY <2>9 DEF Claim, GoD
  <2>10. CASE ReadRequest(d) BY <2>10 DEF ReadRequest, GoD
  <2>11. CASE Finish(d) BY <2>11 DEF Finish, GoD
  <2>12. CASE FinishStaleResult(d) BY <2>12 DEF FinishStaleResult, GoD
  <2>13. CASE FinishDropOld(d) BY <2>13 DEF FinishDropOld, GoD
  <2>14. CASE FinishCheck(d) BY <2>14 DEF FinishCheck, GoD
  <2>15. CASE PublishResult(d) BY <2>15 DEF PublishResult, GoD
  <2>16. CASE Unmark(d) BY <2>16 DEF Unmark, GoD
  <2>17. CASE Fault(d) BY <2>17 DEF Fault, GoD
  <2>18. CASE Stop(d) BY <2>18 DEF Stop, GoD
  <2>19. CASE Close(d) BY <2>19 DEF Close, GoD
  <2>20. CASE CrashDaemon(d) BY <2>20 DEF CrashDaemon
  <2> QED
    BY <1>2, <2>1, <2>2, <2>3, <2>4, <2>5, <2>6, <2>7, <2>8, <2>9, <2>10,
       <2>11, <2>12, <2>13, <2>14, <2>15, <2>16, <2>17, <2>18, <2>19, <2>20
       DEF DaemonStep, Poll
<1>3. CASE ExpireRequest \/ ExpireResult
  BY <1>3 DEF ExpireRequest, ExpireResult, Expire
<1>4. CASE UNCHANGED vars BY <1>4 DEF vars
<1> QED BY <1>1, <1>2, <1>3, <1>4 DEF Next

\* A request outlives its command only if that is interrupted.
LEMMA RequestStep == IInv /\ RequestInv /\ [Next]_vars => RequestInv'
<1> SUFFICES ASSUME IInv /\ RequestInv, [Next]_vars PROVE RequestInv'
  OBVIOUS
<1> USE NoOneAssumption
    DEF IInv, TypeOK, FreshInv, OnceInv, Asked, Offered, RequestInv,
        SomeClient, ClientPC, Locked, Setup, Waiting, Cleaning, Asking,
        DaemonPC, Running, Starting, Finishing, clientVars, daemonVars, files
<1>1. ASSUME NEW c \in Clients, ClientStep(c) \/ CrashClient(c)
      PROVE  RequestInv'
  <2>1. CASE Lock(c) BY <2>1 DEF Lock, GoC
  <2>2. CASE NotIdentified(c) BY <2>2 DEF NotIdentified, GoC
  <2>3. CASE Identify(c) BY <2>3 DEF Identify, GoC
  <2>4. CASE Fail(c) BY <2>4 DEF Fail, GoC
  <2>5. CASE StaleRequest(c) BY <2>5 DEF StaleRequest, GoC
  <2>6. CASE DropRequest(c) BY <2>6 DEF DropRequest, GoC
  <2>7. CASE StaleResult(c) BY <2>7 DEF StaleResult, GoC
  <2>8. CASE DropResult(c) BY <2>8 DEF DropResult, GoC
  <2>9. CASE CheckActive(c) BY <2>9 DEF CheckActive, GoC
  <2>10. CASE DropActive(c) BY <2>10 DEF DropActive, GoC
  <2>11. CASE CheckRequest(c) BY <2>11 DEF CheckRequest, GoC
  <2>12. CASE CheckResult(c) BY <2>12 DEF CheckResult, GoC
  <2>13. CASE DropPrior(c) BY <2>13 DEF DropPrior, GoC
  <2>14. CASE PublishRequest(c) BY <2>14 DEF PublishRequest, GoC
  <2>15. CASE ReadResult(c) BY <2>15 DEF ReadResult, GoC
  <2>16. CASE TakeResult(c) BY <2>16 DEF TakeResult, GoC
  <2>17. CASE PrintResult(c) BY <2>17 DEF PrintResult, GoC, Own
  <2>18. CASE CleanRequest(c) BY <2>18 DEF CleanRequest, GoC, Own
  <2>19. CASE CleanResult(c) BY <2>19 DEF CleanResult, GoC, Own
  <2>20. CASE CleanActive(c) BY <2>20 DEF CleanActive, GoC, Own
  <2>21. CASE CleaningFails(c) BY <2>21 DEF CleaningFails, GoC
  <2>22. CASE Release(c) BY <2>22 DEF Release, GoC
  <2>23. CASE CrashClient(c) BY <2>23 DEF CrashClient
  <2> QED
    BY <1>1, <2>1, <2>2, <2>3, <2>4, <2>5, <2>6, <2>7, <2>8, <2>9, <2>10,
       <2>11, <2>12, <2>13, <2>14, <2>15, <2>16, <2>17, <2>18, <2>19, <2>20,
       <2>21, <2>22, <2>23
       DEF ClientStep
<1>2. ASSUME NEW d \in Daemons, DaemonStep(d) \/ CrashDaemon(d)
      PROVE  RequestInv'
  <2>1. CASE Launch(d) BY <2>1 DEF Launch, GoD
  <2>2. CASE BindInstance(d) BY <2>2 DEF BindInstance, GoD
  <2>3. CASE PollStaleRequest(d) BY <2>3 DEF PollStaleRequest, GoD
  <2>4. CASE PollDropRequest(d) BY <2>4 DEF PollDropRequest, GoD
  <2>5. CASE PollStaleResult(d) BY <2>5 DEF PollStaleResult, GoD
  <2>6. CASE PollDropResult(d) BY <2>6 DEF PollDropResult, GoD
  <2>7. CASE RemoveOrphan(d) BY <2>7 DEF RemoveOrphan, GoD
  <2>8. CASE FindRequest(d) BY <2>8 DEF FindRequest, GoD
  <2>9. CASE Claim(d) BY <2>9 DEF Claim, GoD
  <2>10. CASE ReadRequest(d) BY <2>10 DEF ReadRequest, GoD
  <2>11. CASE Finish(d) BY <2>11 DEF Finish, GoD
  <2>12. CASE FinishStaleResult(d) BY <2>12 DEF FinishStaleResult, GoD
  <2>13. CASE FinishDropOld(d) BY <2>13 DEF FinishDropOld, GoD
  <2>14. CASE FinishCheck(d) BY <2>14 DEF FinishCheck, GoD
  <2>15. CASE PublishResult(d) BY <2>15 DEF PublishResult, GoD
  <2>16. CASE Unmark(d) BY <2>16 DEF Unmark, GoD
  <2>17. CASE Fault(d) BY <2>17 DEF Fault, GoD
  <2>18. CASE Stop(d) BY <2>18 DEF Stop, GoD
  <2>19. CASE Close(d) BY <2>19 DEF Close, GoD
  <2>20. CASE CrashDaemon(d) BY <2>20 DEF CrashDaemon
  <2> QED
    BY <1>2, <2>1, <2>2, <2>3, <2>4, <2>5, <2>6, <2>7, <2>8, <2>9, <2>10,
       <2>11, <2>12, <2>13, <2>14, <2>15, <2>16, <2>17, <2>18, <2>19, <2>20
       DEF DaemonStep, Poll
<1>3. CASE ExpireRequest \/ ExpireResult
  BY <1>3 DEF ExpireRequest, ExpireResult, Expire
<1>4. CASE UNCHANGED vars BY <1>4 DEF vars
<1> QED BY <1>1, <1>2, <1>3, <1>4 DEF Next

\* A marker beside a request is an interrupted command's.
LEMMA OrphanStep == IInv /\ MarkerInv /\ [Next]_vars => OrphanInv'
<1> SUFFICES ASSUME IInv /\ MarkerInv, [Next]_vars PROVE OrphanInv'
  OBVIOUS
<1> USE NoOneAssumption
    DEF IInv, TypeOK, FreshInv, CaptureInv, LifetimeHeld, MarkerInv,
        RequestInv, OrphanInv, Checked, Interrupted,
        SomeClient, ClientPC, Locked, Setup, Waiting, Cleaning, Asking,
        DaemonPC, Running, Starting, Finishing, clientVars, daemonVars, files
<1>1. ASSUME NEW c \in Clients, ClientStep(c) \/ CrashClient(c)
      PROVE  OrphanInv'
  <2>1. CASE Lock(c) BY <2>1 DEF Lock, GoC
  <2>2. CASE NotIdentified(c) BY <2>2 DEF NotIdentified, GoC
  <2>3. CASE Identify(c) BY <2>3 DEF Identify, GoC
  <2>4. CASE Fail(c) BY <2>4 DEF Fail, GoC
  <2>5. CASE StaleRequest(c) BY <2>5 DEF StaleRequest, GoC
  <2>6. CASE DropRequest(c) BY <2>6 DEF DropRequest, GoC
  <2>7. CASE StaleResult(c) BY <2>7 DEF StaleResult, GoC
  <2>8. CASE DropResult(c) BY <2>8 DEF DropResult, GoC
  <2>9. CASE CheckActive(c) BY <2>9 DEF CheckActive, GoC
  <2>10. CASE DropActive(c) BY <2>10 DEF DropActive, GoC
  <2>11. CASE CheckRequest(c) BY <2>11 DEF CheckRequest, GoC
  <2>12. CASE CheckResult(c) BY <2>12 DEF CheckResult, GoC
  <2>13. CASE DropPrior(c) BY <2>13 DEF DropPrior, GoC
  <2>14. CASE PublishRequest(c) BY <2>14 DEF PublishRequest, GoC
  <2>15. CASE ReadResult(c) BY <2>15 DEF ReadResult, GoC
  <2>16. CASE TakeResult(c) BY <2>16 DEF TakeResult, GoC
  <2>17. CASE PrintResult(c) BY <2>17 DEF PrintResult, GoC, Own
  <2>18. CASE CleanRequest(c) BY <2>18 DEF CleanRequest, GoC, Own
  <2>19. CASE CleanResult(c) BY <2>19 DEF CleanResult, GoC, Own
  <2>20. CASE CleanActive(c) BY <2>20 DEF CleanActive, GoC, Own
  <2>21. CASE CleaningFails(c) BY <2>21 DEF CleaningFails, GoC
  <2>22. CASE Release(c) BY <2>22 DEF Release, GoC
  <2>23. CASE CrashClient(c) BY <2>23 DEF CrashClient
  <2> QED
    BY <1>1, <2>1, <2>2, <2>3, <2>4, <2>5, <2>6, <2>7, <2>8, <2>9, <2>10,
       <2>11, <2>12, <2>13, <2>14, <2>15, <2>16, <2>17, <2>18, <2>19, <2>20,
       <2>21, <2>22, <2>23
       DEF ClientStep
<1>2. ASSUME NEW d \in Daemons, DaemonStep(d) \/ CrashDaemon(d)
      PROVE  OrphanInv'
  <2>1. CASE Launch(d) BY <2>1 DEF Launch, GoD
  <2>2. CASE BindInstance(d) BY <2>2 DEF BindInstance, GoD
  <2>3. CASE PollStaleRequest(d) BY <2>3 DEF PollStaleRequest, GoD
  <2>4. CASE PollDropRequest(d) BY <2>4 DEF PollDropRequest, GoD
  <2>5. CASE PollStaleResult(d) BY <2>5 DEF PollStaleResult, GoD
  <2>6. CASE PollDropResult(d) BY <2>6 DEF PollDropResult, GoD
  <2>7. CASE RemoveOrphan(d) BY <2>7 DEF RemoveOrphan, GoD
  <2>8. CASE FindRequest(d) BY <2>8 DEF FindRequest, GoD
  <2>9. CASE Claim(d) BY <2>9 DEF Claim, GoD
  <2>10. CASE ReadRequest(d) BY <2>10 DEF ReadRequest, GoD
  <2>11. CASE Finish(d) BY <2>11 DEF Finish, GoD
  <2>12. CASE FinishStaleResult(d) BY <2>12 DEF FinishStaleResult, GoD
  <2>13. CASE FinishDropOld(d) BY <2>13 DEF FinishDropOld, GoD
  <2>14. CASE FinishCheck(d) BY <2>14 DEF FinishCheck, GoD
  <2>15. CASE PublishResult(d) BY <2>15 DEF PublishResult, GoD
  <2>16. CASE Unmark(d) BY <2>16 DEF Unmark, GoD
  <2>17. CASE Fault(d) BY <2>17 DEF Fault, GoD
  <2>18. CASE Stop(d) BY <2>18 DEF Stop, GoD
  <2>19. CASE Close(d) BY <2>19 DEF Close, GoD
  <2>20. CASE CrashDaemon(d) BY <2>20 DEF CrashDaemon
  <2> QED
    BY <1>2, <2>1, <2>2, <2>3, <2>4, <2>5, <2>6, <2>7, <2>8, <2>9, <2>10,
       <2>11, <2>12, <2>13, <2>14, <2>15, <2>16, <2>17, <2>18, <2>19, <2>20
       DEF DaemonStep, Poll
<1>3. CASE ExpireRequest \/ ExpireResult
  BY <1>3 DEF ExpireRequest, ExpireResult, Expire
<1>4. CASE UNCHANGED vars BY <1>4 DEF vars
<1> QED BY <1>1, <1>2, <1>3, <1>4 DEF Next

\* A command that goes on after its look at the marker meets nobody.
LEMMA ClearStep == IInv /\ MarkerInv /\ [Next]_vars => ClearInv'
<1> SUFFICES ASSUME IInv /\ MarkerInv, [Next]_vars PROVE ClearInv'
  OBVIOUS
<1> USE NoOneAssumption
    DEF IInv, TypeOK, FreshInv, CaptureInv, LifetimeHeld, MarkerInv,
        BoundInv, RequestInv, ClearInv, KeptInv, Pending, Checked,
        Published, Interrupted,
        SomeClient, ClientPC, Locked, Setup, Waiting, Cleaning, Asking,
        DaemonPC, Running, Starting, Finishing, clientVars, daemonVars, files
<1>1. ASSUME NEW c \in Clients, ClientStep(c) \/ CrashClient(c)
      PROVE  ClearInv'
  <2>1. CASE Lock(c) BY <2>1 DEF Lock, GoC
  <2>2. CASE NotIdentified(c) BY <2>2 DEF NotIdentified, GoC
  <2>3. CASE Identify(c) BY <2>3 DEF Identify, GoC
  <2>4. CASE Fail(c) BY <2>4 DEF Fail, GoC
  <2>5. CASE StaleRequest(c) BY <2>5 DEF StaleRequest, GoC
  <2>6. CASE DropRequest(c) BY <2>6 DEF DropRequest, GoC
  <2>7. CASE StaleResult(c) BY <2>7 DEF StaleResult, GoC
  <2>8. CASE DropResult(c) BY <2>8 DEF DropResult, GoC
  <2>9. CASE CheckActive(c) BY <2>9 DEF CheckActive, GoC
  <2>10. CASE DropActive(c) BY <2>10 DEF DropActive, GoC
  <2>11. CASE CheckRequest(c) BY <2>11 DEF CheckRequest, GoC
  <2>12. CASE CheckResult(c) BY <2>12 DEF CheckResult, GoC
  <2>13. CASE DropPrior(c) BY <2>13 DEF DropPrior, GoC
  <2>14. CASE PublishRequest(c) BY <2>14 DEF PublishRequest, GoC
  <2>15. CASE ReadResult(c) BY <2>15 DEF ReadResult, GoC
  <2>16. CASE TakeResult(c) BY <2>16 DEF TakeResult, GoC
  <2>17. CASE PrintResult(c) BY <2>17 DEF PrintResult, GoC, Own
  <2>18. CASE CleanRequest(c) BY <2>18 DEF CleanRequest, GoC, Own
  <2>19. CASE CleanResult(c) BY <2>19 DEF CleanResult, GoC, Own
  <2>20. CASE CleanActive(c) BY <2>20 DEF CleanActive, GoC, Own
  <2>21. CASE CleaningFails(c) BY <2>21 DEF CleaningFails, GoC
  <2>22. CASE Release(c) BY <2>22 DEF Release, GoC
  <2>23. CASE CrashClient(c) BY <2>23 DEF CrashClient
  <2> QED
    BY <1>1, <2>1, <2>2, <2>3, <2>4, <2>5, <2>6, <2>7, <2>8, <2>9, <2>10,
       <2>11, <2>12, <2>13, <2>14, <2>15, <2>16, <2>17, <2>18, <2>19, <2>20,
       <2>21, <2>22, <2>23
       DEF ClientStep
<1>2. ASSUME NEW d \in Daemons, DaemonStep(d) \/ CrashDaemon(d)
      PROVE  ClearInv'
  <2>1. CASE Launch(d) BY <2>1 DEF Launch, GoD
  <2>2. CASE BindInstance(d) BY <2>2 DEF BindInstance, GoD
  <2>3. CASE PollStaleRequest(d) BY <2>3 DEF PollStaleRequest, GoD
  <2>4. CASE PollDropRequest(d) BY <2>4 DEF PollDropRequest, GoD
  <2>5. CASE PollStaleResult(d) BY <2>5 DEF PollStaleResult, GoD
  <2>6. CASE PollDropResult(d) BY <2>6 DEF PollDropResult, GoD
  <2>7. CASE RemoveOrphan(d) BY <2>7 DEF RemoveOrphan, GoD
  <2>8. CASE FindRequest(d) BY <2>8 DEF FindRequest, GoD
  <2>9. CASE Claim(d) BY <2>9 DEF Claim, GoD
  <2>10. CASE ReadRequest(d) BY <2>10 DEF ReadRequest, GoD
  <2>11. CASE Finish(d) BY <2>11 DEF Finish, GoD
  <2>12. CASE FinishStaleResult(d) BY <2>12 DEF FinishStaleResult, GoD
  <2>13. CASE FinishDropOld(d) BY <2>13 DEF FinishDropOld, GoD
  <2>14. CASE FinishCheck(d) BY <2>14 DEF FinishCheck, GoD
  <2>15. CASE PublishResult(d) BY <2>15 DEF PublishResult, GoD
  <2>16. CASE Unmark(d) BY <2>16 DEF Unmark, GoD
  <2>17. CASE Fault(d) BY <2>17 DEF Fault, GoD
  <2>18. CASE Stop(d) BY <2>18 DEF Stop, GoD
  <2>19. CASE Close(d) BY <2>19 DEF Close, GoD
  <2>20. CASE CrashDaemon(d) BY <2>20 DEF CrashDaemon
  <2> QED
    BY <1>2, <2>1, <2>2, <2>3, <2>4, <2>5, <2>6, <2>7, <2>8, <2>9, <2>10,
       <2>11, <2>12, <2>13, <2>14, <2>15, <2>16, <2>17, <2>18, <2>19, <2>20
       DEF DaemonStep, Poll
<1>3. CASE ExpireRequest \/ ExpireResult
  BY <1>3 DEF ExpireRequest, ExpireResult, Expire
<1>4. CASE UNCHANGED vars BY <1>4 DEF vars
<1> QED BY <1>1, <1>2, <1>3, <1>4 DEF Next

\* A command that removes a marker removes nobody's.
LEMMA DropStep == IInv /\ MarkerInv /\ [Next]_vars => DropInv'
<1> SUFFICES ASSUME IInv /\ MarkerInv, [Next]_vars PROVE DropInv'
  OBVIOUS
<1>0. IsFiniteSet(Interrupted) /\ IInv /\ TypeOK
  BY DEF MarkerInv, IInv
<1>1a. Interrupted \subseteq Interrupted' /\ (Few' => Few)
  BY <1>0, FewStep
<1>1b. Few => \A b, c \in Interrupted : b = c
  BY <1>0, NotFew
<1> USE NoOneAssumption, <1>1a, <1>1b
    DEF IInv, TypeOK, FreshInv, CaptureInv, LifetimeHeld, MarkerInv,
        BoundInv, RequestInv, OrphanInv, DropInv, KeptInv, Pending,
        Published, Interrupted,
        SomeClient, ClientPC, Locked, Setup, Waiting, Cleaning, Asking,
        DaemonPC, Running, Starting, Finishing, clientVars, daemonVars, files
<1>1. ASSUME NEW c \in Clients, ClientStep(c) \/ CrashClient(c)
      PROVE  DropInv'
  <2>1. CASE Lock(c) BY <2>1 DEF Lock, GoC
  <2>2. CASE NotIdentified(c) BY <2>2 DEF NotIdentified, GoC
  <2>3. CASE Identify(c) BY <2>3 DEF Identify, GoC
  <2>4. CASE Fail(c) BY <2>4 DEF Fail, GoC
  <2>5. CASE StaleRequest(c) BY <2>5 DEF StaleRequest, GoC
  <2>6. CASE DropRequest(c) BY <2>6 DEF DropRequest, GoC
  <2>7. CASE StaleResult(c) BY <2>7 DEF StaleResult, GoC
  <2>8. CASE DropResult(c) BY <2>8 DEF DropResult, GoC
  <2>9. CASE CheckActive(c) BY <2>9 DEF CheckActive, GoC
  <2>10. CASE DropActive(c) BY <2>10 DEF DropActive, GoC
  <2>11. CASE CheckRequest(c) BY <2>11 DEF CheckRequest, GoC
  <2>12. CASE CheckResult(c) BY <2>12 DEF CheckResult, GoC
  <2>13. CASE DropPrior(c) BY <2>13 DEF DropPrior, GoC
  <2>14. CASE PublishRequest(c) BY <2>14 DEF PublishRequest, GoC
  <2>15. CASE ReadResult(c) BY <2>15 DEF ReadResult, GoC
  <2>16. CASE TakeResult(c) BY <2>16 DEF TakeResult, GoC
  <2>17. CASE PrintResult(c) BY <2>17 DEF PrintResult, GoC, Own
  <2>18. CASE CleanRequest(c) BY <2>18 DEF CleanRequest, GoC, Own
  <2>19. CASE CleanResult(c) BY <2>19 DEF CleanResult, GoC, Own
  <2>20. CASE CleanActive(c) BY <2>20 DEF CleanActive, GoC, Own
  <2>21. CASE CleaningFails(c) BY <2>21 DEF CleaningFails, GoC
  <2>22. CASE Release(c) BY <2>22 DEF Release, GoC
  <2>23. CASE CrashClient(c) BY <2>23 DEF CrashClient
  <2> QED
    BY <1>1, <2>1, <2>2, <2>3, <2>4, <2>5, <2>6, <2>7, <2>8, <2>9, <2>10,
       <2>11, <2>12, <2>13, <2>14, <2>15, <2>16, <2>17, <2>18, <2>19, <2>20,
       <2>21, <2>22, <2>23
       DEF ClientStep
<1>2. ASSUME NEW d \in Daemons, DaemonStep(d) \/ CrashDaemon(d)
      PROVE  DropInv'
  <2>1. CASE Launch(d) BY <2>1 DEF Launch, GoD
  <2>2. CASE BindInstance(d) BY <2>2 DEF BindInstance, GoD
  <2>3. CASE PollStaleRequest(d) BY <2>3 DEF PollStaleRequest, GoD
  <2>4. CASE PollDropRequest(d) BY <2>4 DEF PollDropRequest, GoD
  <2>5. CASE PollStaleResult(d) BY <2>5 DEF PollStaleResult, GoD
  <2>6. CASE PollDropResult(d) BY <2>6 DEF PollDropResult, GoD
  <2>7. CASE RemoveOrphan(d) BY <2>7 DEF RemoveOrphan, GoD
  <2>8. CASE FindRequest(d) BY <2>8 DEF FindRequest, GoD
  <2>9. CASE Claim(d) BY <2>9 DEF Claim, GoD
  <2>10. CASE ReadRequest(d) BY <2>10 DEF ReadRequest, GoD
  <2>11. CASE Finish(d) BY <2>11 DEF Finish, GoD
  <2>12. CASE FinishStaleResult(d) BY <2>12 DEF FinishStaleResult, GoD
  <2>13. CASE FinishDropOld(d) BY <2>13 DEF FinishDropOld, GoD
  <2>14. CASE FinishCheck(d) BY <2>14 DEF FinishCheck, GoD
  <2>15. CASE PublishResult(d) BY <2>15 DEF PublishResult, GoD
  <2>16. CASE Unmark(d) BY <2>16 DEF Unmark, GoD
  <2>17. CASE Fault(d) BY <2>17 DEF Fault, GoD
  <2>18. CASE Stop(d) BY <2>18 DEF Stop, GoD
  <2>19. CASE Close(d) BY <2>19 DEF Close, GoD
  <2>20. CASE CrashDaemon(d) BY <2>20 DEF CrashDaemon
  <2> QED
    BY <1>2, <2>1, <2>2, <2>3, <2>4, <2>5, <2>6, <2>7, <2>8, <2>9, <2>10,
       <2>11, <2>12, <2>13, <2>14, <2>15, <2>16, <2>17, <2>18, <2>19, <2>20
       DEF DaemonStep, Poll
<1>3. CASE ExpireRequest \/ ExpireResult
  BY <1>3 DEF ExpireRequest, ExpireResult, Expire
<1>4. CASE UNCHANGED vars BY <1>4 DEF vars
<1> QED BY <1>1, <1>2, <1>3, <1>4 DEF Next

\* The marker is not removed under a capture.
LEMMA KeptStep == IInv /\ MarkerInv /\ [Next]_vars => KeptInv'
<1> SUFFICES ASSUME IInv /\ MarkerInv, [Next]_vars PROVE KeptInv'
  OBVIOUS
<1>0. IsFiniteSet(Interrupted) /\ IInv /\ TypeOK
  BY DEF MarkerInv, IInv
<1>1a. Interrupted \subseteq Interrupted' /\ (Few' => Few)
  BY <1>0, FewStep
<1>1b. Few => \A b, c \in Interrupted : b = c
  BY <1>0, NotFew
<1> USE NoOneAssumption, <1>1a, <1>1b
    DEF IInv, TypeOK, FreshInv, CaptureInv, LifetimeHeld, MarkerInv,
        BoundInv, ClearInv, DropInv, KeptInv, Pending,
        Published, Interrupted,
        SomeClient, ClientPC, Locked, Setup, Waiting, Cleaning, Asking,
        DaemonPC, Running, Starting, Finishing, clientVars, daemonVars, files
<1>1. ASSUME NEW c \in Clients, ClientStep(c) \/ CrashClient(c)
      PROVE  KeptInv'
  <2>1. CASE Lock(c) BY <2>1 DEF Lock, GoC
  <2>2. CASE NotIdentified(c) BY <2>2 DEF NotIdentified, GoC
  <2>3. CASE Identify(c) BY <2>3 DEF Identify, GoC
  <2>4. CASE Fail(c) BY <2>4 DEF Fail, GoC
  <2>5. CASE StaleRequest(c) BY <2>5 DEF StaleRequest, GoC
  <2>6. CASE DropRequest(c) BY <2>6 DEF DropRequest, GoC
  <2>7. CASE StaleResult(c) BY <2>7 DEF StaleResult, GoC
  <2>8. CASE DropResult(c) BY <2>8 DEF DropResult, GoC
  <2>9. CASE CheckActive(c) BY <2>9 DEF CheckActive, GoC
  <2>10. CASE DropActive(c) BY <2>10 DEF DropActive, GoC
  <2>11. CASE CheckRequest(c) BY <2>11 DEF CheckRequest, GoC
  <2>12. CASE CheckResult(c) BY <2>12 DEF CheckResult, GoC
  <2>13. CASE DropPrior(c) BY <2>13 DEF DropPrior, GoC
  <2>14. CASE PublishRequest(c) BY <2>14 DEF PublishRequest, GoC
  <2>15. CASE ReadResult(c) BY <2>15 DEF ReadResult, GoC
  <2>16. CASE TakeResult(c) BY <2>16 DEF TakeResult, GoC
  <2>17. CASE PrintResult(c) BY <2>17 DEF PrintResult, GoC, Own
  <2>18. CASE CleanRequest(c) BY <2>18 DEF CleanRequest, GoC, Own
  <2>19. CASE CleanResult(c) BY <2>19 DEF CleanResult, GoC, Own
  <2>20. CASE CleanActive(c) BY <2>20 DEF CleanActive, GoC, Own
  <2>21. CASE CleaningFails(c) BY <2>21 DEF CleaningFails, GoC
  <2>22. CASE Release(c) BY <2>22 DEF Release, GoC
  <2>23. CASE CrashClient(c) BY <2>23 DEF CrashClient
  <2> QED
    BY <1>1, <2>1, <2>2, <2>3, <2>4, <2>5, <2>6, <2>7, <2>8, <2>9, <2>10,
       <2>11, <2>12, <2>13, <2>14, <2>15, <2>16, <2>17, <2>18, <2>19, <2>20,
       <2>21, <2>22, <2>23
       DEF ClientStep
<1>2. ASSUME NEW d \in Daemons, DaemonStep(d) \/ CrashDaemon(d)
      PROVE  KeptInv'
  <2>1. CASE Launch(d) BY <2>1 DEF Launch, GoD
  <2>2. CASE BindInstance(d) BY <2>2 DEF BindInstance, GoD
  <2>3. CASE PollStaleRequest(d) BY <2>3 DEF PollStaleRequest, GoD
  <2>4. CASE PollDropRequest(d) BY <2>4 DEF PollDropRequest, GoD
  <2>5. CASE PollStaleResult(d) BY <2>5 DEF PollStaleResult, GoD
  <2>6. CASE PollDropResult(d) BY <2>6 DEF PollDropResult, GoD
  <2>7. CASE RemoveOrphan(d) BY <2>7 DEF RemoveOrphan, GoD
  <2>8. CASE FindRequest(d) BY <2>8 DEF FindRequest, GoD
  <2>9. CASE Claim(d) BY <2>9 DEF Claim, GoD
  <2>10. CASE ReadRequest(d) BY <2>10 DEF ReadRequest, GoD
  <2>11. CASE Finish(d) BY <2>11 DEF Finish, GoD
  <2>12. CASE FinishStaleResult(d) BY <2>12 DEF FinishStaleResult, GoD
  <2>13. CASE FinishDropOld(d) BY <2>13 DEF FinishDropOld, GoD
  <2>14. CASE FinishCheck(d) BY <2>14 DEF FinishCheck, GoD
  <2>15. CASE PublishResult(d) BY <2>15 DEF PublishResult, GoD
  <2>16. CASE Unmark(d) BY <2>16 DEF Unmark, GoD
  <2>17. CASE Fault(d) BY <2>17 DEF Fault, GoD
  <2>18. CASE Stop(d) BY <2>18 DEF Stop, GoD
  <2>19. CASE Close(d) BY <2>19 DEF Close, GoD
  <2>20. CASE CrashDaemon(d) BY <2>20 DEF CrashDaemon
  <2> QED
    BY <1>2, <2>1, <2>2, <2>3, <2>4, <2>5, <2>6, <2>7, <2>8, <2>9, <2>10,
       <2>11, <2>12, <2>13, <2>14, <2>15, <2>16, <2>17, <2>18, <2>19, <2>20
       DEF DaemonStep, Poll
<1>3. CASE ExpireRequest \/ ExpireResult
  BY <1>3 DEF ExpireRequest, ExpireResult, Expire
<1>4. CASE UNCHANGED vars BY <1>4 DEF vars
<1> QED BY <1>1, <1>2, <1>3, <1>4 DEF Next
(* ----------------------- theorems on the marker ------------------------- *)

\* At the start there is no marker, no request and no capture.
LEMMA InitMarker == Init => MarkerInv
<1> SUFFICES ASSUME Init PROVE MarkerInv
  OBVIOUS
<1> USE NoOneAssumption DEF Init
<1>1. Interrupted = {} /\ IsFiniteSet(Interrupted)
  BY FS_EmptySet DEF Interrupted
<1>2. BoundInv /\ RequestInv /\ OrphanInv /\ ClearInv /\ DropInv /\ KeptInv
  BY DEF BoundInv, RequestInv, OrphanInv, ClearInv, DropInv, KeptInv, Checked,
         Pending, Setup, Waiting, Cleaning
<1> QED BY <1>1, <1>2 DEF MarkerInv

\* The invariant about the marker holds in every behaviour.
THEOREM MarkerInductive == Spec => []MarkerInv
<1>1. IInv /\ MarkerInv /\ [Next]_vars => MarkerInv'
  <2> SUFFICES ASSUME IInv, MarkerInv, [Next]_vars PROVE MarkerInv'
    OBVIOUS
  <2>1. IsFiniteSet(Interrupted)'
    BY FewStep DEF MarkerInv, IInv
  <2>2. BoundInv' /\ RequestInv'
    BY BoundStep, RequestStep DEF MarkerInv
  <2>3. OrphanInv' /\ ClearInv' /\ DropInv' /\ KeptInv'
    BY OrphanStep, ClearStep, DropStep, KeptStep
  <2> QED BY <2>1, <2>2, <2>3 DEF MarkerInv
<1> QED BY InitMarker, Inductive, <1>1, PTL DEF Spec

\* No command and no clean-up removes the marker of the capture that is going
\* on while fewer than two commands were interrupted, however many commands,
\* daemons, crashes and faults there are.
THEOREM Marked == Spec => []MarkerStands
<1>1. MarkerInv => MarkerStands
  BY DEF MarkerInv, KeptInv, MarkerStands, Few
<1> QED BY MarkerInductive, <1>1, PTL

\* A command that waits for its capture sees the daemon capture for no other
\* command but one that was killed or could not clean up.
THEOREM Serialized == Spec => []SerializedUnlessKilled
<1>1. IInv /\ MarkerInv => SerializedUnlessKilled
  BY DEF IInv, TypeOK, MarkerInv, ClearInv, SerializedUnlessKilled
<1> QED BY Inductive, MarkerInductive, <1>1, PTL
====
