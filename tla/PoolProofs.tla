----------------------------- MODULE PoolProofs -----------------------------
(* Theorems about ServerPool, for any number of servers.                   *)
EXTENDS ServerPool, TLAPS

(* The round under way has looked at the servers before at, and at no      *)
(* other; of those that have not changed since it began it knows.          *)
RoundSound ==
    pc \in {"check", "hung"} =>
        /\ \A s \in passed : s < at
        /\ \A s \in still : s < at => (s \in passed <=> s \in up)

IInv == TypeOK /\ ListFresh /\ RoundSound

LEMMA InitSound == Init => IInv
<1> SUFFICES ASSUME Init PROVE IInv
  OBVIOUS
<1>1. at \in 1 .. NumServers + 1
  BY ServerPoolAssumption DEF Init
<1>2. TypeOK
  BY <1>1 DEF Init, TypeOK
<1>3. ListFresh /\ RoundSound
  BY DEF Init, ListFresh, RoundSound
<1> QED BY <1>2, <1>3 DEF IInv

(* A round begins with nothing looked at.                                  *)
LEMMA BeginSound == ASSUME IInv, BeginRound, first' = first PROVE IInv'
  BY ServerPoolAssumption DEF BeginRound, IInv, TypeOK, ListFresh, RoundSound, servers

(* The verdict on the next server is the truth about it.                   *)
LEMMA CheckSound == ASSUME IInv, Check PROVE IInv'
<1>1. TypeOK'
  BY ServerPoolAssumption DEF Check, InList, Verdict, IInv, TypeOK, servers
<1>2. ListFresh'
  BY DEF Check, IInv, ListFresh
<1>3. RoundSound'
  BY ServerPoolAssumption DEF Check, InList, Verdict, IInv, TypeOK, RoundSound, servers
<1> QED BY <1>1, <1>2, <1>3 DEF IInv

(* After the last server, at is behind them all, so the round knows all    *)
(* servers that stood still.                                               *)
LEMMA PublishSound == ASSUME IInv, Publish PROVE IInv'
<1>1. \A s \in servers : s < at
  BY ServerPoolAssumption DEF Publish, InList, IInv, TypeOK, servers
<1>2. TypeOK'
  BY ServerPoolAssumption DEF Publish, Published, IInv, TypeOK
<1>3. ListFresh'
  BY <1>1 DEF Publish, Published, IInv, TypeOK, ListFresh, RoundSound
<1>4. RoundSound'
  BY DEF Publish, RoundSound
<1> QED BY <1>2, <1>3, <1>4 DEF IInv

(* A server that changes is no longer one that stood still.                *)
LEMMA ChangeSound == ASSUME IInv, NEW s \in servers, Change(s) PROVE IInv'
<1>1. TypeOK'
  BY DEF Change, IInv, TypeOK
<1>2. ListFresh' /\ RoundSound'
  BY DEF Change, IInv, TypeOK, ListFresh, RoundSound
<1> QED BY <1>1, <1>2 DEF IInv

(* Steps that leave the list and the round as they are.                    *)
LEMMA OthersSound ==
    ASSUME IInv, CheckHangs \/ Wake \/ LoopEnds \/ Choose \/ Dispose \/ UNCHANGED vars
    PROVE  IInv'
<1>1. TypeOK'
  <2>1. CASE CheckHangs \/ Wake \/ LoopEnds \/ Dispose
    BY <2>1 DEF CheckHangs, Wake, LoopEnds, Dispose, IInv, TypeOK
  <2>2. CASE Choose
    <3>1. chosen' \in servers \cup {NoServer}
      BY <2>2 DEF Choose, IInv, TypeOK
    <3> QED BY <2>2, <3>1 DEF Choose, IInv, TypeOK
  <2>3. CASE UNCHANGED vars
    BY <2>3 DEF vars, IInv, TypeOK
  <2> QED BY <2>1, <2>2, <2>3
<1>2. ListFresh' /\ RoundSound'
  BY DEF CheckHangs, Wake, LoopEnds, Choose, Dispose, vars, IInv, ListFresh, RoundSound
<1> QED BY <1>1, <1>2 DEF IInv

LEMMA StepSound == IInv /\ [Next]_vars => IInv'
<1> SUFFICES ASSUME IInv, [Next]_vars PROVE IInv'
  OBVIOUS
<1>1. CASE Listen \/ Loop
  BY <1>1, BeginSound DEF Listen, Loop
<1>2. CASE Check
  BY <1>2, CheckSound
<1>3. CASE Publish
  BY <1>3, PublishSound
<1>4. ASSUME NEW s \in servers, Change(s) PROVE IInv'
  BY <1>4, ChangeSound
<1>5. CASE CheckHangs \/ Wake \/ LoopEnds \/ Choose \/ Dispose \/ UNCHANGED vars
  BY <1>5, OthersSound
<1> QED BY <1>1, <1>2, <1>3, <1>4, <1>5 DEF Next, Rounds

LEMMA Sound == Spec => []IInv
<1> QED BY InitSound, StepSound, PTL DEF Spec

(* Every state of the pool and its rounds is well typed; in particular the *)
(* loop never looks for a server behind the end of the list.               *)
THEOREM PoolTyping == Spec => []TypeOK
<1>1. IInv => TypeOK
  BY DEF IInv
<1> QED BY Sound, <1>1, PTL

(* A server that has not changed since the last complete round began is    *)
(* listed by serverpool exactly if it answers, for any number of servers.  *)
THEOREM PoolListFresh == Spec => []ListFresh
<1>1. IInv => ListFresh
  BY DEF IInv
<1> QED BY Sound, <1>1, PTL
=============================================================================
