-------------------------- MODULE TuiClient_proofs --------------------------
(***************************************************************************)
(* Theorems about the clients, for any number of sessions and of workers   *)
(* and whatever gets lost.                                                 *)
(***************************************************************************)
EXTENDS TuiClient, TLAPS

\* What the session endpoints and a given reason do to the books.
LEMMA ServiceFacts ==
  ASSUME ServiceTypeOK
  PROVE  /\ \A s : Created(s) => ServiceTypeOK'
         /\ \A s : Deleted(s) => ServiceTypeOK'
         /\ \A lost, reason : reason \in Reasons /\ Left(lost, reason)
                              => left' \in [Sessions -> {""} \cup Reasons]
         /\ \A lost, reason : reason \in Reasons /\ GivenUp(lost, reason) => ServiceTypeOK'
  BY DEF ServiceTypeOK, Created, Deleted, Left, GivenUp

LEMMA CliTypeStep == TypeOK /\ CliNext => ServiceTypeOK' /\ CliTypeOK'
<1> SUFFICES ASSUME ServiceTypeOK, CliTypeOK, CliNext PROVE ServiceTypeOK' /\ CliTypeOK'
  BY DEF TypeOK
<1> USE ServiceFacts DEF CliTypeOK, CliExit, Reasons
<1>1. ASSUME NEW s \in Sessions, CliCreate(s) PROVE ServiceTypeOK' /\ CliTypeOK'
  BY <1>1 DEF CliCreate
<1>2. CASE CliUnanswered
  BY <1>2 DEF CliUnanswered
<1>3. CASE CliAnswered
  BY <1>3 DEF CliAnswered, serviceVars, ServiceTypeOK
<1>4. CASE CliRaises
  BY <1>4 DEF CliRaises
<1>5. CASE CliQuit
  BY <1>5 DEF CliQuit, serviceVars, ServiceTypeOK
<1>6. ASSUME NEW s \in Sessions, CliStartDelete(s) PROVE ServiceTypeOK' /\ CliTypeOK'
  BY <1>6 DEF CliStartDelete, serviceVars, ServiceTypeOK
<1>7. CASE CliDelete
  BY <1>7 DEF CliDelete
<1> QED
  BY <1>1, <1>2, <1>3, <1>4, <1>5, <1>6, <1>7 DEF CliNext

\* What a worker's step does to the books of the workers.
WorkersOK ==
  /\ job \in [Workers -> {"none", "create", "send", "delete", "fail"}]
  /\ at \in [Workers -> Stages]
  /\ id \in [Workers -> MaybeSession]

LEMMA StagesAre ==
  /\ {"none", "open", "stream", "delete", "post", "answered", "named", "paired"} \subseteq Stages
  /\ {"shown", "check", "flag", "disable", "clear", "enable", "fail"} \subseteq Stages
  BY DEF Stages, Creating, Preparing, Ending

LEMMA WorkerFacts ==
  ASSUME WorkersOK, NEW w \in Workers
  PROVE  /\ Finish(w) => WorkersOK'
         /\ \A where \in Stages : Goto(w, where) => WorkersOK'
         /\ \A kind \in {"create", "send", "delete"}, where \in Stages, sid \in MaybeSession :
              StartWorker(w, kind, where, sid) => WorkersOK'
  BY StagesAre DEF WorkersOK, Finish, Goto, StartWorker, MaybeSession

\* A step that leaves the books of the workers or of the server alone.
LEMMA UnchangedBooks ==
  /\ WorkersOK /\ UNCHANGED workerVars => WorkersOK'
  /\ ServiceTypeOK /\ UNCHANGED serviceVars => ServiceTypeOK'
  /\ CliTypeOK /\ UNCHANGED cliVars => CliTypeOK'
  BY DEF WorkersOK, workerVars, ServiceTypeOK, serviceVars, CliTypeOK, cliVars

\* What is on the screen and shared between the threads.
ScreenOK ==
  /\ session \in MaybeSession /\ container \in MaybeSession
  /\ streaming \in BOOLEAN /\ disabled \in BOOLEAN
  /\ bar \in MaybeSession \X MaybeSession
  /\ ui \in {"free", "deleting", "cleared", "quitting", "exited"}
  /\ doomed \in MaybeSession
  /\ renew \in BOOLEAN
  /\ hasty \in BOOLEAN

LEMMA TypeParts == TypeOK <=> ServiceTypeOK /\ CliTypeOK /\ ScreenOK /\ WorkersOK
  BY DEF TypeOK, ScreenOK, WorkersOK

LEMMA TypeInit == Init => TypeOK
<1> SUFFICES ASSUME Init PROVE ServiceTypeOK /\ CliTypeOK /\ ScreenOK /\ WorkersOK
  BY TypeParts
<1>1. ServiceTypeOK /\ CliTypeOK
  BY DEF Init, ServiceInit, CliInit, ServiceTypeOK, CliTypeOK
<1>2. ScreenOK
  BY DEF Init, ScreenOK, MaybeSession
<1>3. WorkersOK
  BY StagesAre DEF Init, WorkersOK, MaybeSession
<1> QED
  BY <1>1, <1>2, <1>3

LEMMA TopBarType ==
  ASSUME session' \in MaybeSession, container' \in MaybeSession
  PROVE  TopBar \in MaybeSession \X MaybeSession
  BY DEF TopBar, MaybeSession

LEMMA TypeStep == TypeOK /\ [Next]_vars => TypeOK'
<1> SUFFICES ASSUME TypeOK, [Next]_vars PROVE TypeOK'
  OBVIOUS
<1> DEFINE Parts == ServiceTypeOK /\ CliTypeOK /\ ScreenOK /\ WorkersOK
<1>0. Parts
  BY TypeParts
<1> USE UnchangedBooks
<1>1. ASSUME NEW w \in Workers, Submit(w) PROVE Parts'
  <2>2. WorkersOK'
    BY <1>0, <1>1, StagesAre, WorkerFacts DEF Submit, MaybeSession
  <2>3. ScreenOK'
    BY <1>0, <1>1 DEF Submit, ScreenOK, MaybeSession, sharedVars, screenVars
  <2> QED
    BY <1>0, <2>2, <2>3, <1>1 DEF Submit
<1>2. ASSUME NEW w \in Workers, NewSession(w) PROVE Parts'
  <2>2. WorkersOK'
    BY <1>0, <1>2, StagesAre, WorkerFacts DEF NewSession, MaybeSession
  <2>3. ScreenOK'
    BY <1>0, <1>2 DEF NewSession, ScreenOK, MaybeSession, sharedVars, screenVars
  <2> QED
    BY <1>0, <2>2, <2>3, <1>2 DEF NewSession
<1>3. ASSUME NEW again \in BOOLEAN, DeleteReads(again) PROVE Parts'
  <2>2. WorkersOK'
    BY <1>0, <1>3, UnchangedBooks DEF DeleteReads
  <2>3. ScreenOK'
    BY <1>0, <1>3 DEF DeleteReads, ScreenOK, MaybeSession, sharedVars, screenVars
  <2> QED
    BY <1>0, <2>2, <2>3, <1>3 DEF DeleteReads
<1>4. ASSUME DeleteClears PROVE Parts'
  <2>1. ServiceTypeOK'
    BY <1>0, <1>4, ServiceFacts DEF DeleteClears, Reasons
  <2>2. WorkersOK'
    BY <1>0, <1>4, UnchangedBooks DEF DeleteClears
  <2>3. ScreenOK'
    BY <1>0, <1>4 DEF DeleteClears, ScreenOK, MaybeSession, sharedVars, screenVars
  <2> QED
    BY <1>0, <2>1, <2>2, <2>3, <1>4 DEF DeleteClears
<1>5. ASSUME DeleteEnds PROVE Parts'
  <2>2. WorkersOK'
    <3>1. CASE renew
      <4>1. PICK w \in Workers, x \in Workers :
              /\ job' = [job EXCEPT ![w] = "delete", ![x] = "create"]
              /\ at' = [at EXCEPT ![w] = "delete", ![x] = "post"]
              /\ id' = [id EXCEPT ![w] = doomed]
        BY <1>5, <3>1 DEF DeleteEnds, Idle
      <4>2. doomed \in MaybeSession
        BY <1>0 DEF ScreenOK
      <4> QED
        BY <1>0, <4>1, <4>2, StagesAre DEF WorkersOK
    <3>2. CASE ~renew
      <4>1. PICK w \in Workers : StartWorker(w, "delete", "delete", doomed)
        BY <1>5, <3>2 DEF DeleteEnds, Idle
      <4>2. doomed \in MaybeSession
        BY <1>0 DEF ScreenOK
      <4> QED
        BY <1>0, <4>1, <4>2, StagesAre, WorkerFacts
    <3> QED
      BY <3>1, <3>2
  <2>3. ScreenOK'
    BY <1>0, <1>5, TopBarType DEF DeleteEnds, ScreenOK, MaybeSession, sharedVars, screenVars
  <2> QED
    BY <1>0, <2>2, <2>3, <1>5 DEF DeleteEnds
<1>6. ASSUME Quit PROVE Parts'
  <2>2. WorkersOK'
    BY <1>0, <1>6, UnchangedBooks DEF Quit
  <2>3. ScreenOK'
    BY <1>0, <1>6 DEF Quit, ScreenOK, MaybeSession, sharedVars, screenVars
  <2> QED
    BY <1>0, <2>2, <2>3, <1>6 DEF Quit
<1>7. ASSUME QuitEnds PROVE Parts'
  <2>1. ServiceTypeOK'
    BY <1>0, <1>7, ServiceFacts DEF QuitEnds, Reasons, ServiceTypeOK
  <2>2. WorkersOK'
    BY <1>0, <1>7, UnchangedBooks DEF QuitEnds
  <2>3. ScreenOK'
    BY <1>0, <1>7 DEF QuitEnds, ScreenOK, MaybeSession, sharedVars, screenVars
  <2> QED
    BY <1>0, <2>1, <2>2, <2>3, <1>7 DEF QuitEnds
<1>8. ASSUME NEW w \in Workers, NEW s \in Sessions, Served(w, s) PROVE Parts'
  <2>1. ServiceTypeOK'
    BY <1>0, <1>8, ServiceFacts DEF Served, Reasons
  <2>2. WorkersOK'
    BY <1>0, <1>8, StagesAre DEF Served, MaybeSession, WorkersOK
  <2>3. ScreenOK'
    BY <1>0, <1>8 DEF Served, ScreenOK, MaybeSession, sharedVars, screenVars
  <2> QED
    BY <1>0, <2>1, <2>2, <2>3, <1>8 DEF Served
<1>9. ASSUME NEW w \in Workers, Refused(w) PROVE Parts'
  <2>2. WorkersOK'
    BY <1>0, <1>9, StagesAre, WorkerFacts DEF Refused, MaybeSession
  <2>3. ScreenOK'
    BY <1>0, <1>9 DEF Refused, ScreenOK, MaybeSession, sharedVars, screenVars
  <2> QED
    BY <1>0, <2>2, <2>3, <1>9 DEF Refused
<1>10. ASSUME NEW w \in Workers, Unanswered(w) PROVE Parts'
  <2>1. ServiceTypeOK'
    BY <1>0, <1>10, ServiceFacts DEF Unanswered, Reasons
  <2>2. WorkersOK'
    BY <1>0, <1>10, StagesAre, WorkerFacts DEF Unanswered, MaybeSession
  <2>3. ScreenOK'
    BY <1>0, <1>10 DEF Unanswered, ScreenOK, MaybeSession, sharedVars, screenVars
  <2> QED
    BY <1>0, <2>1, <2>2, <2>3, <1>10 DEF Unanswered
<1>11. ASSUME NEW w \in Workers, Name(w) PROVE Parts'
  <2>1. ServiceTypeOK'
    BY <1>0, <1>11, ServiceFacts DEF Name, Reasons
  <2>2. WorkersOK'
    BY <1>0, <1>11, StagesAre, WorkerFacts DEF Name, MaybeSession
  <2>3. ScreenOK'
    BY <1>0, <1>11 DEF Name, ScreenOK, WorkersOK, MaybeSession, sharedVars, screenVars
  <2> QED
    BY <1>0, <2>1, <2>2, <2>3, <1>11 DEF Name
<1>12. ASSUME NEW w \in Workers, Pair(w) PROVE Parts'
  <2>2. WorkersOK'
    BY <1>0, <1>12, StagesAre, WorkerFacts DEF Pair, MaybeSession
  <2>3. ScreenOK'
    BY <1>0, <1>12 DEF Pair, ScreenOK, WorkersOK, MaybeSession, sharedVars, screenVars
  <2> QED
    BY <1>0, <2>2, <2>3, <1>12 DEF Pair
<1>13. ASSUME NEW w \in Workers, Show(w) PROVE Parts'
  <2>2. WorkersOK'
    BY <1>0, <1>13, StagesAre, WorkerFacts DEF Show, MaybeSession
  <2>3. ScreenOK'
    BY <1>0, <1>13, TopBarType DEF Show, ScreenOK, MaybeSession, sharedVars, screenVars
  <2> QED
    BY <1>0, <2>2, <2>3, <1>13 DEF Show
<1>14. ASSUME NEW w \in Workers, Report(w) PROVE Parts'
  <2>2. WorkersOK'
    <3>1. CASE Finish(w)
      BY <1>0, <3>1, WorkerFacts
    <3>2. CASE ~Finish(w)
      <4>1. /\ at' = [at EXCEPT ![w] = "flag"] /\ id' = [id EXCEPT ![w] = NoSession]
            /\ UNCHANGED job
        BY <1>14, <3>2 DEF Report
      <4> QED
        BY <1>0, <4>1, StagesAre DEF WorkersOK, MaybeSession
    <3> QED
      BY <3>1, <3>2
  <2>3. ScreenOK'
    BY <1>0, <1>14 DEF Report, ScreenOK, MaybeSession, sharedVars, screenVars
  <2> QED
    BY <1>0, <2>2, <2>3, <1>14 DEF Report
<1>15. ASSUME NEW w \in Workers, CheckSession(w) PROVE Parts'
  <2>2. WorkersOK'
    BY <1>0, <1>15, StagesAre, WorkerFacts DEF CheckSession, MaybeSession
  <2>3. ScreenOK'
    BY <1>0, <1>15 DEF CheckSession, ScreenOK, MaybeSession, sharedVars, screenVars
  <2> QED
    BY <1>0, <2>2, <2>3, <1>15 DEF CheckSession
<1>16. ASSUME NEW w \in Workers, Flag(w) PROVE Parts'
  <2>2. WorkersOK'
    BY <1>0, <1>16, StagesAre, WorkerFacts DEF Flag, MaybeSession
  <2>3. ScreenOK'
    BY <1>0, <1>16 DEF Flag, ScreenOK, MaybeSession, sharedVars, screenVars
  <2> QED
    BY <1>0, <2>2, <2>3, <1>16 DEF Flag
<1>17. ASSUME NEW w \in Workers, Disable(w) PROVE Parts'
  <2>2. WorkersOK'
    BY <1>0, <1>17, StagesAre, WorkerFacts DEF Disable, MaybeSession
  <2>3. ScreenOK'
    BY <1>0, <1>17 DEF Disable, ScreenOK, MaybeSession, sharedVars, screenVars
  <2> QED
    BY <1>0, <2>2, <2>3, <1>17 DEF Disable
<1>18. ASSUME NEW w \in Workers, Open(w) PROVE Parts'
  <2>2. WorkersOK'
    BY <1>0, <1>18, StagesAre DEF Open, MaybeSession, WorkersOK, ScreenOK
  <2>3. ScreenOK'
    BY <1>0, <1>18 DEF Open, ScreenOK, MaybeSession, sharedVars, screenVars
  <2> QED
    BY <1>0, <2>2, <2>3, <1>18 DEF Open
<1>19. ASSUME NEW w \in Workers, StreamEnds(w) PROVE Parts'
  <2>2. WorkersOK'
    BY <1>0, <1>19, StagesAre, WorkerFacts DEF StreamEnds, MaybeSession
  <2>3. ScreenOK'
    BY <1>0, <1>19 DEF StreamEnds, ScreenOK, MaybeSession, sharedVars, screenVars
  <2> QED
    BY <1>0, <2>2, <2>3, <1>19 DEF StreamEnds
<1>20. ASSUME NEW w \in Workers, Clear(w) PROVE Parts'
  <2>2. WorkersOK'
    BY <1>0, <1>20, StagesAre, WorkerFacts DEF Clear, MaybeSession
  <2>3. ScreenOK'
    BY <1>0, <1>20 DEF Clear, ScreenOK, MaybeSession, sharedVars, screenVars
  <2> QED
    BY <1>0, <2>2, <2>3, <1>20 DEF Clear
<1>21. ASSUME NEW w \in Workers, Enable(w) PROVE Parts'
  <2>2. WorkersOK'
    BY <1>0, <1>21, StagesAre, WorkerFacts DEF Enable, MaybeSession
  <2>3. ScreenOK'
    BY <1>0, <1>21 DEF Enable, ScreenOK, MaybeSession, sharedVars, screenVars
  <2> QED
    BY <1>0, <2>2, <2>3, <1>21 DEF Enable
<1>22. ASSUME NEW w \in Workers, DeleteInBackground(w) PROVE Parts'
  <2>1. ServiceTypeOK'
    BY <1>0, <1>22, ServiceFacts DEF DeleteInBackground, Reasons
  <2>2. WorkersOK'
    BY <1>0, <1>22, StagesAre, WorkerFacts DEF DeleteInBackground, MaybeSession
  <2>3. ScreenOK'
    BY <1>0, <1>22 DEF DeleteInBackground, ScreenOK, MaybeSession, sharedVars, screenVars
  <2> QED
    BY <1>0, <2>1, <2>2, <2>3, <1>22 DEF DeleteInBackground
<1>23. ASSUME NEW w \in Workers, EndsWithApp(w) PROVE Parts'
  <2>2. WorkersOK'
    BY <1>0, <1>23, StagesAre, WorkerFacts DEF EndsWithApp, MaybeSession
  <2>3. ScreenOK'
    BY <1>0, <1>23 DEF EndsWithApp, ScreenOK, MaybeSession, sharedVars, screenVars
  <2> QED
    BY <1>0, <2>2, <2>3, <1>23 DEF EndsWithApp
<1>27. ASSUME NEW w \in Workers, Fails(w) PROVE Parts'
  <2>1. ServiceTypeOK'
    BY <1>0, <1>27, ServiceFacts DEF Fails, Reasons
  <2>2. WorkersOK'
    BY <1>0, <1>27, StagesAre, WorkerFacts DEF Fails, MaybeSession
  <2>3. ScreenOK'
    BY <1>0, <1>27 DEF Fails, ScreenOK, MaybeSession, sharedVars
  <2> QED
    BY <1>0, <2>1, <2>2, <2>3, <1>27 DEF Fails
<1>24. ASSUME CliNext, UNCHANGED <<sharedVars, screenVars, workerVars>> PROVE Parts'
  BY <1>0, <1>24, CliTypeStep DEF ScreenOK, sharedVars, screenVars
<1>25. ASSUME UNCHANGED vars PROVE Parts'
  BY <1>0, <1>25 DEF vars, ScreenOK, sharedVars, screenVars
<1>26. Parts'
  BY <1>1, <1>2, <1>3, <1>4, <1>5, <1>6, <1>7, <1>8, <1>9, <1>10, <1>11, <1>12, <1>13,
     <1>14, <1>15, <1>16, <1>17, <1>18, <1>19, <1>20, <1>21, <1>22, <1>23, <1>24, <1>25,
     <1>27 DEF Next, UiStep, WorkerStep
<1> QED
  BY <1>26 DEF TypeOK, ScreenOK, WorkersOK

(***************************************************************************)
(* The clients' variables keep their types, for any number of workers.     *)
(***************************************************************************)
THEOREM TuiTypeOK == Spec => []TypeOK
<1> QED
  BY TypeInit, TypeStep, PTL DEF Spec

-----------------------------------------------------------------------------
(* The invariant. *)

\* A sid to delete is known exactly while a handler has one; the statements of
\* _send_message and _create_session_sync are reached by the right workers; a
\* CLI that has ended holds nothing.
StagesInv ==
  /\ doomed # NoSession <=> ui \in {"deleting", "cleared", "quitting"}
  /\ \A w \in Workers : at[w] \in Creating => job[w] \in {"create", "send"}
  /\ \A w \in Workers : at[w] \in Preparing \cup {"open", "stream"} => job[w] = "send"
  /\ \A w \in Workers : at[w] \in Ending => job[w] \in {"send", "fail"}
  /\ \A w \in Workers : at[w] = "delete" => job[w] = "delete"
  /\ cli = "none" => holds = NoSession

\* Somebody holds the session s, or gave it up.
Kept(s) ==
  \/ ui # "exited" /\ s \in {session, doomed}
  \/ \E w \in Workers : at[w] \in {"answered", "delete"} /\ id[w] = s
  \/ runs # "delete" /\ holds = s
  \/ left[s] # ""

Accounted == \A s \in live : Kept(s)

RacedOnlyIfHasty == \A s \in Sessions : left[s] = "raced" => hasty

\* Without a hasty user one worker at a time is between its start and the
\* interface's reaction, and creates only while there is no session.
OneUnseen ==
  /\ \A w, x \in Workers :
       at[w] \in Creating \cup Preparing /\ at[x] \in Creating \cup Preparing => w = x
  /\ \A w \in Workers : at[w] \in {"post", "answered"} => session = NoSession
  /\ ui = "deleting" => session = doomed
  /\ ui \in {"deleting", "cleared"} /\ renew => ~Unseen
  /\ ui = "cleared" /\ renew => session = NoSession

\* A worker on its way to the end of a stream.
Sending(w) == job[w] \in {"send", "fail"}
              /\ at[w] \in Creating \cup Preparing \cup {"open", "stream", "clear"}

OneSending ==
  /\ \A w, x \in Workers : Sending(w) /\ Sending(x) => w = x
  /\ \A w \in Workers : at[w] \in {"disable", "open", "stream", "clear"} => streaming

\* How the two ids and the top bar follow one another.
BarFollows ==
  /\ \A w \in Workers : at[w] \in {"named", "paired"} => session \in {id[w], NoSession}
  /\ session # NoSession /\ (\A w \in Workers : at[w] # "named")
       => container \in {session, NoSession}
  /\ ui \in {"free", "deleting"} /\ (\A w \in Workers : at[w] \notin {"named", "paired"})
       => /\ bar[1] = session
          /\ session # NoSession => bar[2] \in {session, NoSession}

Careful == ~hasty => OneUnseen /\ OneSending /\ BarFollows

ClientInv == TypeOK /\ StagesInv /\ Accounted /\ RacedOnlyIfHasty /\ Careful

-----------------------------------------------------------------------------
(* Where the workers are. *)

LEMMA InvInit == Init => ClientInv
<1> SUFFICES ASSUME Init PROVE ClientInv
  OBVIOUS
<1>1. TypeOK
  BY TypeInit
<1>2. \A w \in Workers : at[w] = "none"
  BY DEF Init
<1>3. StagesInv
  BY <1>2 DEF Init, CliInit, StagesInv, Creating, Preparing, Ending
<1>4. Accounted /\ RacedOnlyIfHasty
  BY DEF Init, ServiceInit, Accounted, RacedOnlyIfHasty
<1>5. Careful
  BY <1>2 DEF Init, Careful, OneUnseen, OneSending, Sending, BarFollows, Creating, Preparing
<1> QED
  BY <1>1, <1>3, <1>4, <1>5 DEF ClientInv

LEMMA StagesStep == TypeOK /\ StagesInv /\ [Next]_vars => StagesInv'
<1> SUFFICES ASSUME TypeOK, StagesInv, [Next]_vars PROVE StagesInv'
  OBVIOUS
<1>0. WorkersOK /\ ScreenOK
  BY TypeParts
<1> USE DEF StagesInv, Creating, Preparing, Ending, workerVars, screenVars, cliVars
<1>1. ASSUME NEW w \in Workers, Submit(w) PROVE StagesInv'
  BY <1>0, <1>1 DEF Submit, StartWorker, Idle, WorkersOK, ScreenOK, MaybeSession
<1>2. ASSUME NEW w \in Workers, NewSession(w) PROVE StagesInv'
  BY <1>0, <1>2 DEF NewSession, StartWorker, Idle, WorkersOK, ScreenOK, MaybeSession
<1>3. ASSUME NEW again \in BOOLEAN, DeleteReads(again) PROVE StagesInv'
  BY <1>0, <1>3 DEF DeleteReads, UiFree, WorkersOK, ScreenOK, MaybeSession
<1>4. ASSUME DeleteClears PROVE StagesInv'
  BY <1>0, <1>4 DEF DeleteClears, WorkersOK, ScreenOK, MaybeSession
<1>5. ASSUME DeleteEnds PROVE StagesInv'
  BY <1>0, <1>5 DEF DeleteEnds, StartWorker, Idle, WorkersOK, ScreenOK, MaybeSession
<1>6. ASSUME Quit PROVE StagesInv'
  BY <1>0, <1>6 DEF Quit, UiFree, WorkersOK, ScreenOK, MaybeSession
<1>7. ASSUME QuitEnds PROVE StagesInv'
  BY <1>0, <1>7 DEF QuitEnds, WorkersOK, ScreenOK, MaybeSession
<1>8. ASSUME NEW w \in Workers, NEW s \in Sessions, Served(w, s) PROVE StagesInv'
  BY <1>0, <1>8 DEF Served, WorkersOK, ScreenOK, MaybeSession
<1>9. ASSUME NEW w \in Workers, Refused(w) PROVE StagesInv'
  BY <1>0, <1>9 DEF Refused, Finish, WorkersOK, ScreenOK, MaybeSession
<1>10. ASSUME NEW w \in Workers, Unanswered(w) PROVE StagesInv'
  BY <1>0, <1>10 DEF Unanswered, Finish, WorkersOK, ScreenOK, MaybeSession
<1>11. ASSUME NEW w \in Workers, Name(w) PROVE StagesInv'
  BY <1>0, <1>11 DEF Name, Goto, WorkersOK, ScreenOK, MaybeSession
<1>12. ASSUME NEW w \in Workers, Pair(w) PROVE StagesInv'
  BY <1>0, <1>12 DEF Pair, Goto, WorkersOK, ScreenOK, MaybeSession
<1>13. ASSUME NEW w \in Workers, Show(w) PROVE StagesInv'
  BY <1>0, <1>13 DEF Show, Goto, WorkersOK, ScreenOK, MaybeSession
<1>14. ASSUME NEW w \in Workers, Report(w) PROVE StagesInv'
  BY <1>0, <1>14 DEF Report, Goto, Finish, WorkersOK, ScreenOK, MaybeSession
<1>15. ASSUME NEW w \in Workers, CheckSession(w) PROVE StagesInv'
  BY <1>0, <1>15 DEF CheckSession, Goto, WorkersOK, ScreenOK, MaybeSession
<1>16. ASSUME NEW w \in Workers, Flag(w) PROVE StagesInv'
  BY <1>0, <1>16 DEF Flag, Goto, WorkersOK, ScreenOK, MaybeSession
<1>17. ASSUME NEW w \in Workers, Disable(w) PROVE StagesInv'
  BY <1>0, <1>17 DEF Disable, Goto, WorkersOK, ScreenOK, MaybeSession
<1>18. ASSUME NEW w \in Workers, Open(w) PROVE StagesInv'
  BY <1>0, <1>18 DEF Open, WorkersOK, ScreenOK, MaybeSession
<1>19. ASSUME NEW w \in Workers, StreamEnds(w) PROVE StagesInv'
  BY <1>0, <1>19 DEF StreamEnds, Goto, WorkersOK, ScreenOK, MaybeSession
<1>20. ASSUME NEW w \in Workers, Clear(w) PROVE StagesInv'
  BY <1>0, <1>20 DEF Clear, Goto, WorkersOK, ScreenOK, MaybeSession
<1>21. ASSUME NEW w \in Workers, Enable(w) PROVE StagesInv'
  BY <1>0, <1>21 DEF Enable, Goto, Finish, WorkersOK, ScreenOK, MaybeSession
<1>22. ASSUME NEW w \in Workers, DeleteInBackground(w) PROVE StagesInv'
  BY <1>0, <1>22 DEF DeleteInBackground, Finish, WorkersOK, ScreenOK, MaybeSession
<1>23. ASSUME NEW w \in Workers, EndsWithApp(w) PROVE StagesInv'
  BY <1>0, <1>23 DEF EndsWithApp, Finish, WorkersOK, ScreenOK, MaybeSession
<1>27. ASSUME NEW w \in Workers, Fails(w) PROVE StagesInv'
  BY <1>0, <1>27 DEF Fails, Finish, UiFree, WorkersOK, ScreenOK, MaybeSession
<1>24. ASSUME CliNext, UNCHANGED <<sharedVars, screenVars, workerVars>> PROVE StagesInv'
  <2>1. cli' = "none" => holds' = NoSession
    BY <1>24 DEF CliNext, CliCreate, CliUnanswered, CliAnswered, CliRaises, CliQuit,
                 CliStartDelete, CliDelete, CliExit
  <2> QED
    BY <1>24, <2>1
<1>25. ASSUME UNCHANGED vars PROVE StagesInv'
  BY <1>25 DEF vars
<1> QED
  BY <1>1, <1>2, <1>3, <1>4, <1>5, <1>6, <1>7, <1>8, <1>9, <1>10, <1>11, <1>12, <1>13,
     <1>14, <1>15, <1>16, <1>17, <1>18, <1>19, <1>20, <1>21, <1>22, <1>23, <1>24, <1>25,
     <1>27 DEF Next, UiStep, WorkerStep

-----------------------------------------------------------------------------
(* No session is forgotten. *)

LEMMA KeptIsHeld ==
  ASSUME NEW s \in Sessions
  PROVE  Kept(s) <=> s \in TuiHolds \cup CliHolds \/ left[s] # ""
<1>1. s # NoSession
  BY ServiceAssumption
<1> QED
  BY <1>1 DEF Kept, TuiHolds, CliHolds

\* Workers take up and drop nothing that somebody must delete.
LEMMA AccountedQuiet ==
  ASSUME TypeOK, Accounted, UNCHANGED <<live, left, session, doomed, ui, runs, holds>>,
         \A w \in Workers : at[w] \in {"answered", "delete"} => at'[w] = at[w] /\ id'[w] = id[w]
  PROVE  Accounted'
  BY DEF Accounted, Kept

\* Sessions that are given up, and only they, need no holder any more.
LEMMA LeftFacts ==
  ASSUME ServiceTypeOK, NEW lost, NEW reason \in Reasons, Left(lost, reason),
         NEW s \in Sessions
  PROVE  /\ s \in lost => left'[s] # ""
         /\ left[s] # "" => left'[s] = left[s]
         /\ left'[s] \in {left[s], reason}
         /\ s \notin lost => left'[s] = left[s]
  BY DEF Left, ServiceTypeOK, Reasons

LEMMA OneLeft ==
  ASSUME ServiceTypeOK, NEW t, NEW reason \in Reasons, Left({t}, reason),
         NEW s \in Sessions, s = t \/ left[s] # ""
  PROVE  left'[s] # ""
  BY DEF Left, ServiceTypeOK, Reasons

LEMMA AccountedStep == TypeOK /\ StagesInv /\ Accounted /\ [Next]_vars => Accounted'
<1> SUFFICES ASSUME TypeOK, StagesInv, Accounted, [Next]_vars PROVE Accounted'
  OBVIOUS
<1>0. WorkersOK /\ ScreenOK /\ ServiceTypeOK
  BY TypeParts
<1>1. ASSUME NEW w \in Workers, Submit(w) PROVE Accounted'
  BY <1>0, <1>1, AccountedQuiet DEF Submit, StartWorker, Idle, StagesInv, Creating, WorkersOK,
     serviceVars, cliVars, sharedVars, screenVars
<1>2. ASSUME NEW w \in Workers, NewSession(w) PROVE Accounted'
  BY <1>0, <1>2, AccountedQuiet DEF NewSession, StartWorker, Idle, StagesInv, Creating, WorkersOK,
     serviceVars, cliVars, sharedVars, screenVars
<1>3. ASSUME NEW again \in BOOLEAN, DeleteReads(again) PROVE Accounted'
  <2> SUFFICES ASSUME NEW s \in live' PROVE Kept(s)'
    BY DEF Accounted
  <2>1. s \in live /\ Kept(s) /\ s # NoSession
    BY <1>0, <1>3, ServiceAssumption DEF DeleteReads, Accounted, ServiceTypeOK, serviceVars
  <2>2. doomed = NoSession
    BY <1>0, <1>3 DEF DeleteReads, UiFree, StagesInv
  <2> QED
    BY <1>3, <2>1, <2>2 DEF DeleteReads, UiFree, Kept, serviceVars, cliVars, sharedVars, workerVars
<1>4. ASSUME DeleteClears PROVE Accounted'
  <2> SUFFICES ASSUME NEW s \in live' PROVE Kept(s)'
    BY DEF Accounted
  <2>1. s \in live /\ s \in Sessions /\ Kept(s)
    BY <1>0, <1>4 DEF DeleteClears, GivenUp, Accounted, ServiceTypeOK
  <2>2. s = session /\ s # doomed => left'[s] # ""
    <3>1. s = session /\ s # doomed => s \in Overwritten
      BY <2>1, ServiceAssumption DEF Overwritten
    <3> QED
      BY <1>0, <1>4, <2>1, <3>1, LeftFacts DEF DeleteClears, GivenUp, Reasons
  <2>3. left[s] # "" => left'[s] # ""
    BY <1>0, <1>4, <2>1, LeftFacts DEF DeleteClears, GivenUp, Reasons
  <2> QED
    BY <1>4, <2>1, <2>2, <2>3 DEF DeleteClears, Kept, cliVars, workerVars
<1>5. ASSUME DeleteEnds PROVE Accounted'
  <2>1. \E w \in Workers : at'[w] = "delete" /\ id'[w] = doomed
    BY <1>0, <1>5 DEF DeleteEnds, StartWorker, Idle, WorkersOK
  <2>2. \A w \in Workers : at[w] \in {"answered", "delete"} => at'[w] = at[w] /\ id'[w] = id[w]
    BY <1>0, <1>5 DEF DeleteEnds, StartWorker, Idle, WorkersOK, StagesInv, Creating
  <2>3. UNCHANGED <<live, left, session, runs, holds>> /\ ui # "exited" /\ ui' # "exited"
    BY <1>5 DEF DeleteEnds, serviceVars, cliVars
  <2>4. ASSUME NEW s \in live, Kept(s) PROVE Kept(s)'
    BY <2>1, <2>2, <2>3, <2>4 DEF Kept
  <2> QED
    BY <2>3, <2>4 DEF Accounted
<1>6. ASSUME Quit PROVE Accounted'
  <2> SUFFICES ASSUME NEW s \in live' PROVE Kept(s)'
    BY DEF Accounted
  <2>1. s \in live /\ Kept(s) /\ s # NoSession
    BY <1>0, <1>6, ServiceAssumption DEF Quit, Accounted, ServiceTypeOK, serviceVars
  <2>2. doomed = NoSession
    BY <1>0, <1>6 DEF Quit, UiFree, StagesInv
  <2> QED
    BY <1>6, <2>1, <2>2 DEF Quit, UiFree, Kept, serviceVars, cliVars, sharedVars, workerVars
<1>7. ASSUME QuitEnds PROVE Accounted'
  <2> SUFFICES ASSUME NEW s \in live' PROVE Kept(s)'
    BY DEF Accounted
  <2>1. s \in live /\ s \in Sessions /\ Kept(s)
    BY <1>0, <1>7 DEF QuitEnds, Accounted, ServiceTypeOK
  <2>2. s \in {session, doomed} => left'[s] # ""
    <3>1. s \in {session, doomed} => s \in Overwritten \cup {doomed}
      BY <2>1, ServiceAssumption DEF Overwritten
    <3>2. s = doomed => Left(Overwritten \cup {doomed}, "failed")
      BY <1>7 DEF QuitEnds
    <3>3. s # doomed /\ s = session => s \in Overwritten
      BY <2>1, ServiceAssumption DEF Overwritten
    <3>4. \/ Left(Overwritten, "quit")
          \/ Left(Overwritten \cup {doomed}, "failed")
      BY <1>7 DEF QuitEnds
    <3>5. ASSUME NEW lost, NEW reason \in Reasons, Left(lost, reason), s \in lost
          PROVE  left'[s] # ""
      BY <1>0, <2>1, <3>5, LeftFacts
    <3>6. "quit" \in Reasons /\ "failed" \in Reasons
      BY DEF Reasons
    <3> QED
      BY <3>1, <3>2, <3>3, <3>4, <3>5, <3>6
  <2>3. left[s] # "" => left'[s] # ""
    BY <1>0, <1>7, <2>1, LeftFacts DEF QuitEnds, Reasons
  <2> QED
    BY <1>7, <2>1, <2>2, <2>3 DEF QuitEnds, Kept, cliVars, workerVars
<1>8. ASSUME NEW w \in Workers, NEW s \in Sessions, Served(w, s) PROVE Accounted'
  <2>1. at[w] = "post" /\ at' = [at EXCEPT ![w] = "answered"] /\ id' = [id EXCEPT ![w] = s]
    BY <1>8 DEF Served
  <2>2. at'[w] = "answered" /\ id'[w] = s
    BY <1>0, <2>1 DEF WorkersOK
  <2>3. \A x \in Workers : at[x] \in {"answered", "delete"} => at'[x] = at[x] /\ id'[x] = id[x]
    BY <1>0, <2>1 DEF WorkersOK
  <2>4. /\ live' = live \cup {s}
        /\ UNCHANGED <<left, runs, holds, session, doomed, ui>>
    BY <1>8 DEF Served, Created, cliVars, sharedVars, screenVars
  <2>5. ASSUME NEW t \in live PROVE Kept(t)'
    BY <2>3, <2>4 DEF Accounted, Kept
  <2>6. Kept(s)'
    BY <2>2 DEF Kept
  <2> QED
    BY <2>4, <2>5, <2>6 DEF Accounted
<1>9. ASSUME NEW w \in Workers, Refused(w) PROVE Accounted'
  BY <1>0, <1>9, AccountedQuiet DEF Refused, Finish, StagesInv, Creating, WorkersOK,
     serviceVars, cliVars, sharedVars, screenVars
<1>10. ASSUME NEW w \in Workers, Unanswered(w) PROVE Accounted'
  <2> SUFFICES ASSUME NEW s \in live' PROVE Kept(s)'
    BY DEF Accounted
  <2>1. s \in live /\ s \in Sessions /\ Kept(s)
    BY <1>0, <1>10 DEF Unanswered, GivenUp, Accounted, ServiceTypeOK
  <2>2. s = id[w] \/ left[s] # "" => left'[s] # ""
    BY <1>0, <1>10, <2>1, OneLeft DEF Unanswered, GivenUp, Reasons
  <2>3. \A x \in Workers : x # w => at'[x] = at[x] /\ id'[x] = id[x]
    BY <1>0, <1>10 DEF Unanswered, Finish, WorkersOK
  <2> QED
    BY <1>10, <2>1, <2>2, <2>3 DEF Unanswered, Kept, cliVars, sharedVars, screenVars
<1>11. ASSUME NEW w \in Workers, Name(w) PROVE Accounted'
  <2> SUFFICES ASSUME NEW s \in live' PROVE Kept(s)'
    BY DEF Accounted
  <2>1. s \in live /\ s \in Sessions /\ Kept(s)
    BY <1>0, <1>11 DEF Name, GivenUp, Accounted, ServiceTypeOK
  <2>2. left[s] # "" => left'[s] # ""
    BY <1>0, <1>11, <2>1, LeftFacts DEF Name, GivenUp, Reasons
  <2>3. s = id[w] => session' = s /\ (ui = "exited" => left'[s] # "")
    <3>1. ui = "exited" => Left({id[w]}, "quit")
      BY <1>11 DEF Name, GivenUp
    <3> QED
      BY <1>0, <1>11, <2>1, <3>1, OneLeft DEF Name, Reasons
  <2>4. ui # "exited" /\ s = session => s = doomed \/ left'[s] # ""
    <3>1. ui # "exited" => Left(Overwritten, "raced")
      BY <1>11 DEF Name, GivenUp
    <3>2. s = session /\ s # doomed => s \in Overwritten
      BY <2>1, ServiceAssumption DEF Overwritten
    <3> QED
      BY <1>0, <2>1, <3>1, <3>2, LeftFacts DEF Reasons
  <2>5. \A x \in Workers : x # w => at'[x] = at[x] /\ id'[x] = id[x]
    BY <1>0, <1>11 DEF Name, Goto, WorkersOK
  <2> QED
    BY <1>11, <2>1, <2>2, <2>3, <2>4, <2>5 DEF Name, Kept, cliVars, screenVars
<1>12. ASSUME NEW w \in Workers, Pair(w) PROVE Accounted'
  BY <1>0, <1>12, AccountedQuiet DEF Pair, Goto, StagesInv, Creating, WorkersOK,
     serviceVars, cliVars, sharedVars, screenVars
<1>13. ASSUME NEW w \in Workers, Show(w) PROVE Accounted'
  BY <1>0, <1>13, AccountedQuiet DEF Show, Goto, StagesInv, Creating, WorkersOK,
     serviceVars, cliVars, sharedVars, screenVars
<1>14. ASSUME NEW w \in Workers, Report(w) PROVE Accounted'
  BY <1>0, <1>14, AccountedQuiet DEF Report, Goto, Finish, StagesInv, Creating, WorkersOK,
     serviceVars, cliVars, sharedVars, screenVars
<1>15. ASSUME NEW w \in Workers, CheckSession(w) PROVE Accounted'
  BY <1>0, <1>15, AccountedQuiet DEF CheckSession, Goto, StagesInv, Creating, WorkersOK,
     serviceVars, cliVars, sharedVars, screenVars
<1>16. ASSUME NEW w \in Workers, Flag(w) PROVE Accounted'
  BY <1>0, <1>16, AccountedQuiet DEF Flag, Goto, StagesInv, Creating, WorkersOK,
     serviceVars, cliVars, sharedVars, screenVars
<1>17. ASSUME NEW w \in Workers, Disable(w) PROVE Accounted'
  BY <1>0, <1>17, AccountedQuiet DEF Disable, Goto, StagesInv, Creating, WorkersOK,
     serviceVars, cliVars, sharedVars, screenVars
<1>18. ASSUME NEW w \in Workers, Open(w) PROVE Accounted'
  BY <1>0, <1>18, AccountedQuiet DEF Open, StagesInv, Creating, WorkersOK,
     serviceVars, cliVars, sharedVars, screenVars
<1>19. ASSUME NEW w \in Workers, StreamEnds(w) PROVE Accounted'
  BY <1>0, <1>19, AccountedQuiet DEF StreamEnds, Goto, StagesInv, Creating, WorkersOK,
     serviceVars, cliVars, sharedVars, screenVars
<1>20. ASSUME NEW w \in Workers, Clear(w) PROVE Accounted'
  BY <1>0, <1>20, AccountedQuiet DEF Clear, Goto, StagesInv, Creating, WorkersOK,
     serviceVars, cliVars, sharedVars, screenVars
<1>21. ASSUME NEW w \in Workers, Enable(w) PROVE Accounted'
  BY <1>0, <1>21, AccountedQuiet DEF Enable, Goto, Finish, StagesInv, Creating, WorkersOK,
     serviceVars, cliVars, sharedVars, screenVars
<1>22. ASSUME NEW w \in Workers, DeleteInBackground(w) PROVE Accounted'
  <2> SUFFICES ASSUME NEW s \in live' PROVE Kept(s)'
    BY DEF Accounted
  <2>1. s \in live /\ s \in Sessions /\ Kept(s)
    BY <1>0, <1>22 DEF DeleteInBackground, Deleted, GivenUp, Accounted, ServiceTypeOK
  <2>2. s = id[w] \/ left[s] # "" => left'[s] # ""
    <3>1. CASE Deleted(id[w])
      BY <2>1, <3>1 DEF Deleted
    <3>2. CASE GivenUp({id[w]}, "failed")
      BY <1>0, <2>1, <3>2, OneLeft DEF GivenUp, Reasons
    <3> QED
      BY <1>22, <3>1, <3>2 DEF DeleteInBackground
  <2>3. \A x \in Workers : x # w => at'[x] = at[x] /\ id'[x] = id[x]
    BY <1>0, <1>22 DEF DeleteInBackground, Finish, WorkersOK
  <2> QED
    BY <1>22, <2>1, <2>2, <2>3 DEF DeleteInBackground, Kept, cliVars, sharedVars, screenVars
<1>23. ASSUME NEW w \in Workers, EndsWithApp(w) PROVE Accounted'
  BY <1>0, <1>23, AccountedQuiet DEF EndsWithApp, Finish, StagesInv, Creating, WorkersOK,
     serviceVars, cliVars, sharedVars, screenVars
<1>27. ASSUME NEW w \in Workers, Fails(w) PROVE Accounted'
  <2> SUFFICES ASSUME NEW s \in live' PROVE Kept(s)'
    BY DEF Accounted
  <2>1. s \in live /\ s \in Sessions /\ Kept(s) /\ s # NoSession
    BY <1>0, <1>27, ServiceAssumption DEF Fails, GivenUp, Accounted, ServiceTypeOK
  <2>2. doomed = NoSession
    BY <1>27 DEF Fails, UiFree, StagesInv
  <2>3. s = session \/ left[s] # "" => left'[s] # ""
    <3>1. s = session => s \in {session} \ {NoSession}
      BY <2>1
    <3> QED
      BY <1>0, <1>27, <2>1, <3>1, LeftFacts DEF Fails, GivenUp, Reasons
  <2>4. \A x \in Workers : at[x] \in {"answered", "delete"} => at'[x] = at[x] /\ id'[x] = id[x]
    BY <1>0, <1>27 DEF Fails, Finish, WorkersOK
  <2> QED
    BY <1>27, <2>1, <2>2, <2>3, <2>4 DEF Fails, Kept, cliVars
<1>24. ASSUME CliNext, UNCHANGED <<sharedVars, screenVars, workerVars>> PROVE Accounted'
  <2> SUFFICES ASSUME NEW s \in live' PROVE Kept(s)'
    BY DEF Accounted
  <2>0. /\ UNCHANGED <<ui, session, doomed, at, id>>
        /\ s \in live => s \in Sessions /\ Kept(s)
    BY <1>0, <1>24 DEF sharedVars, screenVars, workerVars, Accounted, ServiceTypeOK
  <2>1. ASSUME NEW t \in Sessions, CliCreate(t) PROVE Kept(s)'
    <3>1. s = t \/ (s \in live /\ Kept(s) /\ s # NoSession)
      BY <2>0, <2>1, ServiceAssumption DEF CliCreate, Created
    <3>2. /\ runs' # "delete" /\ holds' = t /\ UNCHANGED left
          /\ holds = NoSession
      BY <2>1 DEF CliCreate, Created, StagesInv
    <3> QED
      BY <2>0, <3>1, <3>2 DEF Kept
  <2>2. ASSUME CliUnanswered \/ CliRaises PROVE Kept(s)'
    BY <1>0, <2>0, <2>2, LeftFacts DEF CliUnanswered, CliRaises, GivenUp, Reasons, Kept
  <2>3. CASE CliAnswered
    BY <1>0, <2>0, <2>3, LeftFacts DEF CliAnswered, GivenUp, Reasons, Kept, serviceVars
  <2>4. CASE CliQuit
    BY <2>0, <2>4 DEF CliQuit, Kept, serviceVars
  <2>5. ASSUME NEW t \in Sessions, CliStartDelete(t) PROVE Kept(s)'
    <3>1. /\ s \in live /\ s # NoSession /\ holds = NoSession
          /\ UNCHANGED left
      BY <2>0, <2>5, ServiceAssumption DEF CliStartDelete, serviceVars, StagesInv
    <3> QED
      BY <2>0, <3>1 DEF Kept
  <2>6. CASE CliDelete
    <3>1. CASE Deleted(holds)
      BY <2>0, <3>1 DEF Deleted, Kept
    <3>2. CASE GivenUp(CliHolds, "failed")
      <4>1. s \in live /\ s \in Sessions /\ s # NoSession
        BY <2>0, <3>2, ServiceAssumption DEF GivenUp
      <4>2. runs # "delete" /\ holds = s => s \in CliHolds
        BY <4>1 DEF CliHolds
      <4>3. s \in CliHolds \/ left[s] # "" => left'[s] # ""
        BY <1>0, <3>2, <4>1, LeftFacts DEF GivenUp, Reasons
      <4> QED
        BY <2>0, <4>1, <4>2, <4>3 DEF Kept
    <3> QED
      BY <2>6, <3>1, <3>2 DEF CliDelete
  <2> QED
    BY <1>24, <2>1, <2>2, <2>3, <2>4, <2>5, <2>6 DEF CliNext
<1>25. ASSUME UNCHANGED vars PROVE Accounted'
  BY <1>25 DEF vars, serviceVars, cliVars, sharedVars, screenVars, workerVars, Accounted, Kept
<1> QED
  BY <1>1, <1>2, <1>3, <1>4, <1>5, <1>6, <1>7, <1>8, <1>9, <1>10, <1>11, <1>12, <1>13,
     <1>14, <1>15, <1>16, <1>17, <1>18, <1>19, <1>20, <1>21, <1>22, <1>23, <1>24, <1>25,
     <1>27 DEF Next, UiStep, WorkerStep

-----------------------------------------------------------------------------
(* A patient user. *)

LEMMA RacedStep ==
  TypeOK /\ StagesInv /\ RacedOnlyIfHasty /\ Careful /\ [Next]_vars => RacedOnlyIfHasty'
<1> SUFFICES ASSUME TypeOK, StagesInv, RacedOnlyIfHasty, Careful, [Next]_vars,
                    NEW s \in Sessions, left'[s] = "raced", ~hasty'
             PROVE  FALSE
  BY DEF RacedOnlyIfHasty
<1>0. ServiceTypeOK
  BY TypeParts
<1>1. ~hasty
  BY DEF Next, UiStep, WorkerStep, vars, screenVars, Submit, NewSession, DeleteReads,
         DeleteClears, DeleteEnds, Quit, QuitEnds, Served, Refused, Unanswered, Name, Pair,
         Show, Report, CheckSession, Flag, Disable, Open, StreamEnds, Clear, Enable,
         Fails, DeleteInBackground, EndsWithApp
<1>2. left[s] # "raced" /\ OneUnseen
  BY <1>1 DEF RacedOnlyIfHasty, Careful
<1>3. ASSUME NEW lost, NEW reason \in Reasons \ {"raced"}, Left(lost, reason) PROVE FALSE
  BY <1>0, <1>2, <1>3, LeftFacts
<1>4. ASSUME Left(Overwritten, "raced"), session \in {doomed, NoSession} PROVE FALSE
  <2>1. s \notin Overwritten
    BY <1>4 DEF Overwritten
  <2> QED
    BY <1>0, <1>2, <1>4, <2>1, LeftFacts DEF Reasons
<1>5. ASSUME UNCHANGED left PROVE FALSE
  BY <1>2, <1>5
<1>6. ~DeleteClears
  BY <1>2, <1>4 DEF DeleteClears, GivenUp, OneUnseen
<1>7. ~QuitEnds
  BY <1>3 DEF QuitEnds, Reasons
<1>8. \A w \in Workers : ~Unanswered(w)
  BY <1>3 DEF Unanswered, GivenUp, Reasons
<1>9. \A w \in Workers : ~Name(w)
  <2> SUFFICES ASSUME NEW w \in Workers, Name(w) PROVE FALSE
    OBVIOUS
  <2>1. session = NoSession
    BY <1>2 DEF Name, OneUnseen
  <2> QED
    BY <1>3, <1>4, <2>1 DEF Name, GivenUp, Reasons
<1>13. \A w \in Workers : ~Fails(w)
  BY <1>3 DEF Fails, GivenUp, Reasons
<1>10. \A w \in Workers : ~DeleteInBackground(w)
  BY <1>3, <1>5 DEF DeleteInBackground, Deleted, GivenUp, Reasons
<1>11. ~CliNext
  BY <1>3, <1>5 DEF CliNext, CliCreate, CliUnanswered, CliAnswered, CliRaises, CliQuit,
     CliStartDelete, CliDelete, Created, Deleted, GivenUp, Reasons, serviceVars
<1>12. \/ DeleteClears \/ QuitEnds \/ CliNext \/ UNCHANGED left
       \/ \E w \in Workers : Unanswered(w) \/ Name(w) \/ Fails(w) \/ DeleteInBackground(w)
  BY DEF Next, UiStep, WorkerStep, vars, serviceVars, Submit, NewSession, DeleteReads,
         DeleteEnds, Quit, Served, Created, Refused, Pair, Show, Report, CheckSession,
         Flag, Disable, Open, StreamEnds, Clear, Enable, EndsWithApp
<1> QED
  BY <1>5, <1>6, <1>7, <1>8, <1>9, <1>10, <1>11, <1>12, <1>13

LEMMA CarefulStep == TypeOK /\ StagesInv /\ Careful /\ [Next]_vars => Careful'
<1> SUFFICES ASSUME TypeOK, StagesInv, Careful, [Next]_vars, ~hasty'
             PROVE  OneUnseen' /\ OneSending' /\ BarFollows'
  BY DEF Careful
<1> DEFINE Good == OneUnseen /\ OneSending /\ BarFollows
<1>0. WorkersOK /\ ScreenOK
  BY TypeParts
<1>a. ~hasty => Good
  BY DEF Careful
<1> USE DEF Creating, Preparing, workerVars, screenVars, sharedVars, Unseen
<1>1. ASSUME NEW w \in Workers, Submit(w) PROVE Good'
  <2>0. Good
    BY <1>a, <1>1 DEF Submit
  <2>1. OneUnseen'
    BY <1>0, <1>1, <2>0 DEF OneUnseen, StagesInv, WorkersOK, ScreenOK, MaybeSession,
       Submit, StartWorker, Idle, UiFree
  <2>2. OneSending'
    <3>1. ~streaming /\ ~Unseen /\ UNCHANGED streaming
      BY <1>1 DEF Submit
    <3>2. \A x \in Workers : ~Sending(x)
      BY <2>0, <3>1 DEF OneSending, Sending
    <3>3. at' = [at EXCEPT ![w] = "check"] /\ job' = [job EXCEPT ![w] = "send"]
      BY <1>1 DEF Submit, StartWorker
    <3>4. \A x \in Workers : x # w => at'[x] = at[x] /\ job'[x] = job[x]
      BY <1>0, <3>3 DEF WorkersOK
    <3>5. at'[w] = "check"
      BY <1>0, <3>3 DEF WorkersOK
    <3>6. \A x \in Workers : Sending(x)' => x = w
      BY <3>2, <3>4 DEF Sending
    <3>7. \A x \in Workers : at'[x] \in {"disable", "open", "stream", "clear"} => streaming'
      BY <2>0, <3>1, <3>4, <3>5 DEF OneSending
    <3> QED
      BY <3>6, <3>7 DEF OneSending
  <2>3. BarFollows'
    BY <1>0, <1>1, <2>0 DEF BarFollows, StagesInv, WorkersOK, ScreenOK, MaybeSession,
       Submit, StartWorker, Idle, UiFree
  <2> QED
    BY <2>1, <2>2, <2>3
<1>2. ASSUME NEW w \in Workers, NewSession(w) PROVE Good'
  <2>0. Good
    BY <1>a, <1>2 DEF NewSession
  <2>1. OneUnseen'
    <3>1. /\ ~Unseen /\ session = NoSession /\ ui = "free" /\ UNCHANGED <<session, ui>>
          /\ at' = [at EXCEPT ![w] = "post"]
      BY <1>2 DEF NewSession, StartWorker, UiFree
    <3>2. \A x \in Workers : x # w => at'[x] = at[x] /\ at[x] \notin Creating \cup Preparing
      BY <1>0, <3>1 DEF WorkersOK
    <3>3. \A x \in Workers : at'[x] \in Creating \cup Preparing => x = w
      BY <3>2
    <3> QED
      BY <3>1, <3>3 DEF OneUnseen
  <2>2. OneSending'
    BY <1>0, <1>2, <2>0 DEF OneSending, Sending, StagesInv, WorkersOK, ScreenOK, MaybeSession,
       NewSession, StartWorker, Idle, UiFree
  <2>3. BarFollows'
    BY <1>0, <1>2, <2>0 DEF BarFollows, StagesInv, WorkersOK, ScreenOK, MaybeSession,
       NewSession, StartWorker, Idle, UiFree
  <2> QED
    BY <2>1, <2>2, <2>3
<1>3. ASSUME NEW again \in BOOLEAN, DeleteReads(again) PROVE Good'
  <2>0. Good
    BY <1>a, <1>3 DEF DeleteReads
  <2>1. OneUnseen'
    BY <1>0, <1>3, <2>0 DEF OneUnseen, StagesInv, WorkersOK, ScreenOK, MaybeSession,
       DeleteReads, UiFree
  <2>2. OneSending'
    BY <1>0, <1>3, <2>0 DEF OneSending, Sending, StagesInv, WorkersOK, ScreenOK, MaybeSession,
       DeleteReads, UiFree
  <2>3. BarFollows'
    BY <1>0, <1>3, <2>0 DEF BarFollows, StagesInv, WorkersOK, ScreenOK, MaybeSession,
       DeleteReads, UiFree
  <2> QED
    BY <2>1, <2>2, <2>3
<1>4. ASSUME DeleteClears PROVE Good'
  <2>0. Good
    BY <1>a, <1>4 DEF DeleteClears
  <2>1. OneUnseen'
    BY <1>0, <1>4, <2>0 DEF OneUnseen, StagesInv, WorkersOK, ScreenOK, MaybeSession,
       DeleteClears
  <2>2. OneSending'
    BY <1>0, <1>4, <2>0 DEF OneSending, Sending, StagesInv, WorkersOK, ScreenOK, MaybeSession,
       DeleteClears
  <2>3. BarFollows'
    BY <1>0, <1>4, <2>0 DEF BarFollows, StagesInv, WorkersOK, ScreenOK, MaybeSession,
       DeleteClears
  <2> QED
    BY <2>1, <2>2, <2>3
<1>5. ASSUME DeleteEnds PROVE Good'
  <2>0. Good
    BY <1>a, <1>5 DEF DeleteEnds
  <2>1. OneUnseen'
    BY <1>0, <1>5, <2>0 DEF OneUnseen, StagesInv, WorkersOK, ScreenOK, MaybeSession,
       DeleteEnds, StartWorker, Idle, TopBar
  <2>2. OneSending'
    BY <1>0, <1>5, <2>0 DEF OneSending, Sending, StagesInv, WorkersOK, ScreenOK, MaybeSession,
       DeleteEnds, StartWorker, Idle, TopBar
  <2>3. BarFollows'
    BY <1>0, <1>5, <2>0 DEF BarFollows, StagesInv, WorkersOK, ScreenOK, MaybeSession,
       DeleteEnds, StartWorker, Idle, TopBar
  <2> QED
    BY <2>1, <2>2, <2>3
<1>6. ASSUME Quit PROVE Good'
  <2>0. Good
    BY <1>a, <1>6 DEF Quit
  <2>1. OneUnseen'
    BY <1>0, <1>6, <2>0 DEF OneUnseen, StagesInv, WorkersOK, ScreenOK, MaybeSession,
       Quit, UiFree
  <2>2. OneSending'
    BY <1>0, <1>6, <2>0 DEF OneSending, Sending, StagesInv, WorkersOK, ScreenOK, MaybeSession,
       Quit, UiFree
  <2>3. BarFollows'
    BY <1>0, <1>6, <2>0 DEF BarFollows, StagesInv, WorkersOK, ScreenOK, MaybeSession,
       Quit, UiFree
  <2> QED
    BY <2>1, <2>2, <2>3
<1>7. ASSUME QuitEnds PROVE Good'
  <2>0. Good
    BY <1>a, <1>7 DEF QuitEnds
  <2>1. OneUnseen'
    BY <1>0, <1>7, <2>0 DEF OneUnseen, StagesInv, WorkersOK, ScreenOK, MaybeSession,
       QuitEnds
  <2>2. OneSending'
    BY <1>0, <1>7, <2>0 DEF OneSending, Sending, StagesInv, WorkersOK, ScreenOK, MaybeSession,
       QuitEnds
  <2>3. BarFollows'
    BY <1>0, <1>7, <2>0 DEF BarFollows, StagesInv, WorkersOK, ScreenOK, MaybeSession,
       QuitEnds
  <2> QED
    BY <2>1, <2>2, <2>3
<1>8. ASSUME NEW w \in Workers, NEW s \in Sessions, Served(w, s) PROVE Good'
  <2>0. Good
    BY <1>a, <1>8 DEF Served
  <2>1. OneUnseen'
    BY <1>0, <1>8, <2>0 DEF OneUnseen, StagesInv, WorkersOK, ScreenOK, MaybeSession,
       Served
  <2>2. OneSending'
    BY <1>0, <1>8, <2>0 DEF OneSending, Sending, StagesInv, WorkersOK, ScreenOK, MaybeSession,
       Served
  <2>3. BarFollows'
    BY <1>0, <1>8, <2>0 DEF BarFollows, StagesInv, WorkersOK, ScreenOK, MaybeSession,
       Served
  <2> QED
    BY <2>1, <2>2, <2>3
<1>9. ASSUME NEW w \in Workers, Refused(w) PROVE Good'
  <2>0. Good
    BY <1>a, <1>9 DEF Refused
  <2>1. OneUnseen'
    BY <1>0, <1>9, <2>0 DEF OneUnseen, StagesInv, WorkersOK, ScreenOK, MaybeSession,
       Refused, Finish
  <2>2. OneSending'
    BY <1>0, <1>9, <2>0 DEF OneSending, Sending, StagesInv, WorkersOK, ScreenOK, MaybeSession,
       Refused, Finish
  <2>3. BarFollows'
    BY <1>0, <1>9, <2>0 DEF BarFollows, StagesInv, WorkersOK, ScreenOK, MaybeSession,
       Refused, Finish
  <2> QED
    BY <2>1, <2>2, <2>3
<1>10. ASSUME NEW w \in Workers, Unanswered(w) PROVE Good'
  <2>0. Good
    BY <1>a, <1>10 DEF Unanswered
  <2>1. OneUnseen'
    BY <1>0, <1>10, <2>0 DEF OneUnseen, StagesInv, WorkersOK, ScreenOK, MaybeSession,
       Unanswered, Finish
  <2>2. OneSending'
    BY <1>0, <1>10, <2>0 DEF OneSending, Sending, StagesInv, WorkersOK, ScreenOK, MaybeSession,
       Unanswered, Finish
  <2>3. BarFollows'
    BY <1>0, <1>10, <2>0 DEF BarFollows, StagesInv, WorkersOK, ScreenOK, MaybeSession,
       Unanswered, Finish
  <2> QED
    BY <2>1, <2>2, <2>3
<1>11. ASSUME NEW w \in Workers, Name(w) PROVE Good'
  <2>0. Good
    BY <1>a, <1>11 DEF Name
  <2>1. OneUnseen'
    BY <1>0, <1>11, <2>0 DEF OneUnseen, StagesInv, WorkersOK, ScreenOK, MaybeSession,
       Name, Goto, Overwritten
  <2>2. OneSending'
    BY <1>0, <1>11, <2>0 DEF OneSending, Sending, StagesInv, WorkersOK, ScreenOK, MaybeSession,
       Name, Goto, Overwritten
  <2>3. BarFollows'
    BY <1>0, <1>11, <2>0 DEF BarFollows, OneUnseen, StagesInv, WorkersOK, ScreenOK, MaybeSession,
       Name, Goto, Overwritten
  <2> QED
    BY <2>1, <2>2, <2>3
<1>12. ASSUME NEW w \in Workers, Pair(w) PROVE Good'
  <2>0. Good
    BY <1>a, <1>12 DEF Pair
  <2>1. OneUnseen'
    BY <1>0, <1>12, <2>0 DEF OneUnseen, StagesInv, WorkersOK, ScreenOK, MaybeSession,
       Pair, Goto
  <2>2. OneSending'
    BY <1>0, <1>12, <2>0 DEF OneSending, Sending, StagesInv, WorkersOK, ScreenOK, MaybeSession,
       Pair, Goto
  <2>3. BarFollows'
    BY <1>0, <1>12, <2>0 DEF BarFollows, StagesInv, WorkersOK, ScreenOK, MaybeSession,
       Pair, Goto
  <2> QED
    BY <2>1, <2>2, <2>3
<1>13. ASSUME NEW w \in Workers, Show(w) PROVE Good'
  <2>0. Good
    BY <1>a, <1>13 DEF Show
  <2>1. OneUnseen'
    BY <1>0, <1>13, <2>0 DEF OneUnseen, StagesInv, WorkersOK, ScreenOK, MaybeSession,
       Show, Goto, UiFree, TopBar
  <2>2. OneSending'
    BY <1>0, <1>13, <2>0 DEF OneSending, Sending, StagesInv, WorkersOK, ScreenOK, MaybeSession,
       Show, Goto, UiFree, TopBar
  <2>3. BarFollows'
    BY <1>0, <1>13, <2>0 DEF BarFollows, StagesInv, WorkersOK, ScreenOK, MaybeSession,
       Show, Goto, UiFree, TopBar
  <2> QED
    BY <2>1, <2>2, <2>3
<1>14. ASSUME NEW w \in Workers, Report(w) PROVE Good'
  <2>0. Good
    BY <1>a, <1>14 DEF Report
  <2>1. OneUnseen'
    BY <1>0, <1>14, <2>0 DEF OneUnseen, StagesInv, WorkersOK, ScreenOK, MaybeSession,
       Report, Goto, Finish, UiFree
  <2>2. OneSending'
    BY <1>0, <1>14, <2>0 DEF OneSending, Sending, StagesInv, WorkersOK, ScreenOK, MaybeSession,
       Report, Goto, Finish, UiFree
  <2>3. BarFollows'
    BY <1>0, <1>14, <2>0 DEF BarFollows, StagesInv, WorkersOK, ScreenOK, MaybeSession,
       Report, Goto, Finish, UiFree
  <2> QED
    BY <2>1, <2>2, <2>3
<1>15. ASSUME NEW w \in Workers, CheckSession(w) PROVE Good'
  <2>0. Good
    BY <1>a, <1>15 DEF CheckSession
  <2>1. OneUnseen'
    BY <1>0, <1>15, <2>0 DEF OneUnseen, StagesInv, WorkersOK, ScreenOK, MaybeSession,
       CheckSession, Goto
  <2>2. OneSending'
    BY <1>0, <1>15, <2>0 DEF OneSending, Sending, StagesInv, WorkersOK, ScreenOK, MaybeSession,
       CheckSession, Goto
  <2>3. BarFollows'
    BY <1>0, <1>15, <2>0 DEF BarFollows, StagesInv, WorkersOK, ScreenOK, MaybeSession,
       CheckSession, Goto
  <2> QED
    BY <2>1, <2>2, <2>3
<1>16. ASSUME NEW w \in Workers, Flag(w) PROVE Good'
  <2>0. Good
    BY <1>a, <1>16 DEF Flag
  <2>1. OneUnseen'
    BY <1>0, <1>16, <2>0 DEF OneUnseen, StagesInv, WorkersOK, ScreenOK, MaybeSession,
       Flag, Goto
  <2>2. OneSending'
    BY <1>0, <1>16, <2>0 DEF OneSending, Sending, StagesInv, WorkersOK, ScreenOK, MaybeSession,
       Flag, Goto
  <2>3. BarFollows'
    BY <1>0, <1>16, <2>0 DEF BarFollows, StagesInv, WorkersOK, ScreenOK, MaybeSession,
       Flag, Goto
  <2> QED
    BY <2>1, <2>2, <2>3
<1>17. ASSUME NEW w \in Workers, Disable(w) PROVE Good'
  <2>0. Good
    BY <1>a, <1>17 DEF Disable
  <2>1. OneUnseen'
    BY <1>0, <1>17, <2>0 DEF OneUnseen, StagesInv, WorkersOK, ScreenOK, MaybeSession,
       Disable, Goto
  <2>2. OneSending'
    BY <1>0, <1>17, <2>0 DEF OneSending, Sending, StagesInv, WorkersOK, ScreenOK, MaybeSession,
       Disable, Goto
  <2>3. BarFollows'
    BY <1>0, <1>17, <2>0 DEF BarFollows, StagesInv, WorkersOK, ScreenOK, MaybeSession,
       Disable, Goto
  <2> QED
    BY <2>1, <2>2, <2>3
<1>18. ASSUME NEW w \in Workers, Open(w) PROVE Good'
  <2>0. Good
    BY <1>a, <1>18 DEF Open
  <2>1. OneUnseen'
    BY <1>0, <1>18, <2>0 DEF OneUnseen, StagesInv, WorkersOK, ScreenOK, MaybeSession,
       Open
  <2>2. OneSending'
    BY <1>0, <1>18, <2>0 DEF OneSending, Sending, StagesInv, WorkersOK, ScreenOK, MaybeSession,
       Open
  <2>3. BarFollows'
    BY <1>0, <1>18, <2>0 DEF BarFollows, StagesInv, WorkersOK, ScreenOK, MaybeSession,
       Open
  <2> QED
    BY <2>1, <2>2, <2>3
<1>19. ASSUME NEW w \in Workers, StreamEnds(w) PROVE Good'
  <2>0. Good
    BY <1>a, <1>19 DEF StreamEnds
  <2>1. OneUnseen'
    BY <1>0, <1>19, <2>0 DEF OneUnseen, StagesInv, WorkersOK, ScreenOK, MaybeSession,
       StreamEnds, Goto
  <2>2. OneSending'
    BY <1>0, <1>19, <2>0 DEF OneSending, Sending, StagesInv, WorkersOK, ScreenOK, MaybeSession,
       StreamEnds, Goto
  <2>3. BarFollows'
    BY <1>0, <1>19, <2>0 DEF BarFollows, StagesInv, WorkersOK, ScreenOK, MaybeSession,
       StreamEnds, Goto
  <2> QED
    BY <2>1, <2>2, <2>3
<1>20. ASSUME NEW w \in Workers, Clear(w) PROVE Good'
  <2>0. Good
    BY <1>a, <1>20 DEF Clear
  <2>1. OneUnseen'
    BY <1>0, <1>20, <2>0 DEF OneUnseen, StagesInv, WorkersOK, ScreenOK, MaybeSession,
       Clear, Goto
  <2>2. OneSending'
    <3>1. at[w] = "clear" /\ at' = [at EXCEPT ![w] = "enable"] /\ UNCHANGED job
      BY <1>20 DEF Clear, Goto
    <3>2. \A x \in Workers : x # w => at'[x] = at[x]
      BY <1>0, <3>1 DEF WorkersOK
    <3>3. at'[w] = "enable" /\ job[w] \in {"send", "fail"}
      BY <1>0, <3>1 DEF WorkersOK, StagesInv, Ending
    <3>4. \A x \in Workers : Sending(x) => x = w
      BY <2>0, <3>1, <3>3 DEF OneSending, Sending
    <3>5. \A x \in Workers : ~Sending(x)'
      BY <3>1, <3>2, <3>3, <3>4 DEF Sending
    <3>6. \A x \in Workers : at'[x] \notin {"disable", "open", "stream", "clear"}
      BY <3>1, <3>2, <3>3, <3>4 DEF Sending, StagesInv, Ending
    <3> QED
      BY <3>5, <3>6 DEF OneSending
  <2>3. BarFollows'
    BY <1>0, <1>20, <2>0 DEF BarFollows, StagesInv, WorkersOK, ScreenOK, MaybeSession,
       Clear, Goto
  <2> QED
    BY <2>1, <2>2, <2>3
<1>21. ASSUME NEW w \in Workers, Enable(w) PROVE Good'
  <2>0. Good
    BY <1>a, <1>21 DEF Enable
  <2>1. OneUnseen'
    BY <1>0, <1>21, <2>0 DEF OneUnseen, StagesInv, WorkersOK, ScreenOK, MaybeSession,
       Enable, Goto, Finish
  <2>2. OneSending'
    BY <1>0, <1>21, <2>0 DEF OneSending, Sending, StagesInv, WorkersOK, ScreenOK, MaybeSession,
       Enable, Goto, Finish
  <2>3. BarFollows'
    BY <1>0, <1>21, <2>0 DEF BarFollows, StagesInv, WorkersOK, ScreenOK, MaybeSession,
       Enable, Goto, Finish
  <2> QED
    BY <2>1, <2>2, <2>3
<1>22. ASSUME NEW w \in Workers, DeleteInBackground(w) PROVE Good'
  <2>0. Good
    BY <1>a, <1>22 DEF DeleteInBackground
  <2>1. OneUnseen'
    BY <1>0, <1>22, <2>0 DEF OneUnseen, StagesInv, WorkersOK, ScreenOK, MaybeSession,
       DeleteInBackground, Finish
  <2>2. OneSending'
    BY <1>0, <1>22, <2>0 DEF OneSending, Sending, StagesInv, WorkersOK, ScreenOK, MaybeSession,
       DeleteInBackground, Finish
  <2>3. BarFollows'
    BY <1>0, <1>22, <2>0 DEF BarFollows, StagesInv, WorkersOK, ScreenOK, MaybeSession,
       DeleteInBackground, Finish
  <2> QED
    BY <2>1, <2>2, <2>3
<1>23. ASSUME NEW w \in Workers, EndsWithApp(w) PROVE Good'
  <2>0. Good
    BY <1>a, <1>23 DEF EndsWithApp
  <2>1. OneUnseen'
    BY <1>0, <1>23, <2>0 DEF OneUnseen, StagesInv, WorkersOK, ScreenOK, MaybeSession,
       EndsWithApp, Finish
  <2>2. OneSending'
    BY <1>0, <1>23, <2>0 DEF OneSending, Sending, StagesInv, WorkersOK, ScreenOK, MaybeSession,
       EndsWithApp, Finish
  <2>3. BarFollows'
    BY <1>0, <1>23, <2>0 DEF BarFollows, StagesInv, WorkersOK, ScreenOK, MaybeSession,
       EndsWithApp, Finish
  <2> QED
    BY <2>1, <2>2, <2>3
<1>26. ASSUME NEW w \in Workers, Fails(w) PROVE Good'
  <2>0. Good
    BY <1>a, <1>26 DEF Fails
  <2>1. OneUnseen'
    BY <1>0, <1>26, <2>0 DEF OneUnseen, StagesInv, WorkersOK, ScreenOK, MaybeSession,
       Fails, Finish
  <2>2. OneSending'
    BY <1>0, <1>26, <2>0 DEF OneSending, Sending, StagesInv, WorkersOK, ScreenOK, MaybeSession,
       Fails, Finish
  <2>3. BarFollows'
    BY <1>0, <1>26, <2>0 DEF BarFollows, StagesInv, WorkersOK, ScreenOK, MaybeSession,
       Fails, Finish
  <2> QED
    BY <2>1, <2>2, <2>3
<1>24. ASSUME CliNext, UNCHANGED <<sharedVars, screenVars, workerVars>> PROVE Good'
  BY <1>a, <1>24 DEF OneUnseen, OneSending, Sending, BarFollows
<1>25. ASSUME UNCHANGED vars PROVE Good'
  BY <1>a, <1>25 DEF vars, OneUnseen, OneSending, Sending, BarFollows
<1> QED
  BY <1>1, <1>2, <1>3, <1>4, <1>5, <1>6, <1>7, <1>8, <1>9, <1>10, <1>11, <1>12, <1>13,
     <1>14, <1>15, <1>16, <1>17, <1>18, <1>19, <1>20, <1>21, <1>22, <1>23, <1>24, <1>25,
     <1>26 DEF Next, UiStep, WorkerStep

LEMMA InvStep == ClientInv /\ [Next]_vars => ClientInv'
  BY TypeStep, StagesStep, AccountedStep, RacedStep, CarefulStep DEF ClientInv

(***************************************************************************)
(* Whatever is lost, fails or races: a session on the server is held by a  *)
(* client that will delete it, or was left behind where the clients accept *)
(* it; and workers overwrite each other's only under a hasty user.         *)
(***************************************************************************)
THEOREM SessionsAccountedFor == Spec => []NoneForgotten
<1>1. ClientInv => NoneForgotten
  <2> SUFFICES ASSUME ClientInv PROVE NoneForgotten
    OBVIOUS
  <2>1. \A s \in live : s \in Sessions /\ Kept(s)
    BY DEF ClientInv, TypeOK, ServiceTypeOK, Accounted
  <2> QED
    BY <2>1, KeptIsHeld DEF ClientInv, RacedOnlyIfHasty, NoneForgotten
<1> QED
  BY <1>1, InvInit, InvStep, PTL DEF Spec

(***************************************************************************)
(* One response streams at a time, for any number of workers, as long as   *)
(* the user waits for the interface.                                       *)
(***************************************************************************)
THEOREM ResponsesDoNotOverlap == Spec => []OneStream
<1>1. ClientInv => OneStream
  BY DEF ClientInv, Careful, OneSending, Sending, StagesInv, OneStream
<1> QED
  BY <1>1, InvInit, InvStep, PTL DEF Spec

(***************************************************************************)
(* The top bar shows the session that messages go to, and never another    *)
(* one's container, although the two ids are written and read one by one.  *)
(***************************************************************************)
THEOREM TopBarNeverLies == Spec => []TopBarTruthful
<1>1. ClientInv => TopBarTruthful
  BY DEF ClientInv, Careful, BarFollows, TopBarTruthful, UiFree, Unseen, Creating
<1> QED
  BY <1>1, InvInit, InvStep, PTL DEF Spec
=============================================================================
