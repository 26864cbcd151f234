-------------------------- MODULE SourceShim_proofs --------------------------
(***************************************************************************)
(* Proofs about SourceShim, for every number of requests.                  *)
(***************************************************************************)
EXTENDS SourceShim, TLAPS

LEMMA InitInv == Init => Inv
<1> SUFFICES ASSUME Init PROVE Inv
  OBVIOUS
<1>1. TypeOK /\ HandInv /\ ListInv
  BY DEF Init, TypeOK, HandInv, ListInv, InHand
<1>2. CreatedIsComplete /\ AllOrNothing
  BY DEF Init, CreatedIsComplete, AllOrNothing
<1>3. QED
  BY <1>1, <1>2 DEF Inv

LEMMA ReceiveInv ==
  ASSUME Inv, NEW p \in Calls, Receive(p)
  PROVE  Inv'
<1>0. TypeOK /\ HandInv /\ ListInv /\ CreatedIsComplete /\ AllOrNothing
  BY DEF Inv
<1>1. TypeOK'
  BY <1>0 DEF TypeOK, HandInv, InHand, Receive, Goto
<1>2. HandInv'
  BY <1>0 DEF TypeOK, HandInv, CreatedIsComplete, InHand, Receive, Goto
<1>3. ListInv'
  BY <1>0 DEF TypeOK, ListInv, AllOrNothing, InHand, Receive, Goto
<1>4. CreatedIsComplete'
  BY <1>0 DEF TypeOK, HandInv, CreatedIsComplete, InHand, Receive, Goto
<1>5. AllOrNothing'
  BY <1>0 DEF TypeOK, HandInv, ListInv, AllOrNothing, InHand, Receive, Goto
<1>6. QED
  BY <1>1, <1>2, <1>3, <1>4, <1>5 DEF Inv

LEMMA HangUpInv ==
  ASSUME Inv, NEW p \in Calls, HangUp(p)
  PROVE  Inv'
<1>0. TypeOK /\ HandInv /\ ListInv /\ CreatedIsComplete /\ AllOrNothing
  BY DEF Inv
<1>1. TypeOK'
  BY <1>0 DEF TypeOK, HandInv, InHand, HangUp
<1>2. HandInv'
  BY <1>0 DEF TypeOK, HandInv, CreatedIsComplete, InHand, HangUp
<1>3. ListInv'
  BY <1>0 DEF TypeOK, ListInv, AllOrNothing, InHand, HangUp
<1>4. CreatedIsComplete'
  BY <1>0 DEF TypeOK, HandInv, CreatedIsComplete, InHand, HangUp
<1>5. AllOrNothing'
  BY <1>0 DEF TypeOK, HandInv, ListInv, AllOrNothing, InHand, HangUp
<1>6. QED
  BY <1>1, <1>2, <1>3, <1>4, <1>5 DEF Inv

\* Only a directory that is not there can be made, so nobody else has it in hand.
LEMMA MkdirInv ==
  ASSUME Inv, NEW p \in Calls, Mkdir(p)
  PROVE  Inv'
<1>0. TypeOK /\ HandInv /\ ListInv /\ CreatedIsComplete /\ AllOrNothing
  BY DEF Inv
<1>1. TypeOK'
  BY <1>0 DEF TypeOK, HandInv, InHand, Mkdir, Goto
<1>2. HandInv'
  BY <1>0 DEF TypeOK, HandInv, CreatedIsComplete, InHand, Mkdir, Goto
<1>3. ListInv'
  BY <1>0 DEF TypeOK, ListInv, AllOrNothing, InHand, Mkdir, Goto
<1>4. CreatedIsComplete'
  BY <1>0 DEF TypeOK, HandInv, CreatedIsComplete, InHand, Mkdir, Goto
<1>5. AllOrNothing'
  BY <1>0 DEF TypeOK, HandInv, ListInv, AllOrNothing, InHand, Mkdir, Goto
<1>6. QED
  BY <1>1, <1>2, <1>3, <1>4, <1>5 DEF Inv

LEMMA MkdirRefusedInv ==
  ASSUME Inv, NEW p \in Calls, MkdirRefused(p)
  PROVE  Inv'
<1>0. TypeOK /\ HandInv /\ ListInv /\ CreatedIsComplete /\ AllOrNothing
  BY DEF Inv
<1>1. TypeOK'
  BY <1>0 DEF TypeOK, HandInv, InHand, MkdirRefused, Goto, Reply
<1>2. HandInv'
  BY <1>0 DEF TypeOK, HandInv, CreatedIsComplete, InHand, MkdirRefused, Goto, Reply
<1>3. ListInv'
  BY <1>0 DEF TypeOK, ListInv, AllOrNothing, InHand, MkdirRefused, Goto, Reply
<1>4. CreatedIsComplete'
  BY <1>0 DEF TypeOK, HandInv, CreatedIsComplete, InHand, MkdirRefused, Goto, Reply
<1>5. AllOrNothing'
  BY <1>0 DEF TypeOK, HandInv, ListInv, AllOrNothing, InHand, MkdirRefused, Goto, Reply
<1>6. QED
  BY <1>1, <1>2, <1>3, <1>4, <1>5 DEF Inv

LEMMA GitInitInv ==
  ASSUME Inv, NEW p \in Calls, GitInit(p)
  PROVE  Inv'
<1>0. TypeOK /\ HandInv /\ ListInv /\ CreatedIsComplete /\ AllOrNothing
  BY DEF Inv
<1>1. TypeOK'
  BY <1>0 DEF TypeOK, HandInv, InHand, GitInit, Goto
<1>2. HandInv'
  BY <1>0 DEF TypeOK, HandInv, CreatedIsComplete, InHand, GitInit, Goto
<1>3. ListInv'
  BY <1>0 DEF TypeOK, ListInv, AllOrNothing, InHand, GitInit, Goto
<1>4. CreatedIsComplete'
  BY <1>0 DEF TypeOK, HandInv, CreatedIsComplete, InHand, GitInit, Goto
<1>5. AllOrNothing'
  BY <1>0 DEF TypeOK, HandInv, ListInv, AllOrNothing, InHand, GitInit, Goto
<1>6. QED
  BY <1>1, <1>2, <1>3, <1>4, <1>5 DEF Inv

LEMMA GitFailsInv ==
  ASSUME Inv, NEW p \in Calls, GitFails(p)
  PROVE  Inv'
<1>0. TypeOK /\ HandInv /\ ListInv /\ CreatedIsComplete /\ AllOrNothing
  BY DEF Inv
<1>1. TypeOK'
  BY <1>0 DEF TypeOK, HandInv, InHand, GitFails, Goto
<1>2. HandInv'
  BY <1>0 DEF TypeOK, HandInv, CreatedIsComplete, InHand, GitFails, Goto
<1>3. ListInv'
  BY <1>0 DEF TypeOK, ListInv, AllOrNothing, InHand, GitFails, Goto
<1>4. CreatedIsComplete'
  BY <1>0 DEF TypeOK, HandInv, CreatedIsComplete, InHand, GitFails, Goto
<1>5. AllOrNothing'
  BY <1>0 DEF TypeOK, HandInv, ListInv, AllOrNothing, InHand, GitFails, Goto
<1>6. QED
  BY <1>1, <1>2, <1>3, <1>4, <1>5 DEF Inv

\* The one that had the directory in hand has created the source.
LEMMA AddedInv ==
  ASSUME Inv, NEW p \in Calls, Added(p)
  PROVE  Inv'
<1>0. TypeOK /\ HandInv /\ ListInv /\ CreatedIsComplete /\ AllOrNothing
  BY DEF Inv
<1>1. TypeOK'
  BY <1>0 DEF TypeOK, HandInv, InHand, Added, Goto
<1>2. HandInv'
  BY <1>0 DEF TypeOK, HandInv, CreatedIsComplete, InHand, Added, Goto
<1>3. ListInv'
  BY <1>0 DEF TypeOK, ListInv, AllOrNothing, InHand, Added, Goto
<1>4. CreatedIsComplete'
  BY <1>0 DEF TypeOK, HandInv, CreatedIsComplete, InHand, Added, Goto
<1>5. AllOrNothing'
  BY <1>0 DEF TypeOK, HandInv, ListInv, AllOrNothing, InHand, Added, Goto
<1>6. QED
  BY <1>1, <1>2, <1>3, <1>4, <1>5 DEF Inv

LEMMA AddRefusedInv ==
  ASSUME Inv, NEW p \in Calls, AddRefused(p)
  PROVE  Inv'
<1>0. TypeOK /\ HandInv /\ ListInv /\ CreatedIsComplete /\ AllOrNothing
  BY DEF Inv
<1>1. TypeOK'
  BY <1>0 DEF TypeOK, HandInv, InHand, AddRefused, Goto
<1>2. HandInv'
  BY <1>0 DEF TypeOK, HandInv, CreatedIsComplete, InHand, AddRefused, Goto
<1>3. ListInv'
  BY <1>0 DEF TypeOK, ListInv, AllOrNothing, InHand, AddRefused, Goto
<1>4. CreatedIsComplete'
  BY <1>0 DEF TypeOK, HandInv, CreatedIsComplete, InHand, AddRefused, Goto
<1>5. AllOrNothing'
  BY <1>0 DEF TypeOK, HandInv, ListInv, AllOrNothing, InHand, AddRefused, Goto
<1>6. QED
  BY <1>1, <1>2, <1>3, <1>4, <1>5 DEF Inv

\* A registration that took effect unnoticed is recorded in unsure.
LEMMA AddFailsInv ==
  ASSUME Inv, NEW p \in Calls, AddFails(p)
  PROVE  Inv'
<1>0. TypeOK /\ HandInv /\ ListInv /\ CreatedIsComplete /\ AllOrNothing
  BY DEF Inv
<1>1. TypeOK'
  BY <1>0 DEF TypeOK, HandInv, InHand, AddFails, Goto
<1>2. HandInv'
  BY <1>0 DEF TypeOK, HandInv, CreatedIsComplete, InHand, AddFails, Goto
<1>3. ListInv'
  BY <1>0 DEF TypeOK, ListInv, AllOrNothing, InHand, AddFails, Goto
<1>4. CreatedIsComplete'
  BY <1>0 DEF TypeOK, HandInv, CreatedIsComplete, InHand, AddFails, Goto
<1>5. AllOrNothing'
  BY <1>0 DEF TypeOK, HandInv, ListInv, AllOrNothing, InHand, AddFails, Goto
<1>6. QED
  BY <1>1, <1>2, <1>3, <1>4, <1>5 DEF Inv

LEMMA CreatedInv ==
  ASSUME Inv, NEW p \in Calls, Created(p)
  PROVE  Inv'
<1>0. TypeOK /\ HandInv /\ ListInv /\ CreatedIsComplete /\ AllOrNothing
  BY DEF Inv
<1>1. TypeOK'
  BY <1>0 DEF TypeOK, HandInv, InHand, Created, Goto, Reply
<1>2. HandInv'
  BY <1>0 DEF TypeOK, HandInv, CreatedIsComplete, InHand, Created, Goto, Reply
<1>3. ListInv'
  BY <1>0 DEF TypeOK, ListInv, AllOrNothing, InHand, Created, Goto, Reply
<1>4. CreatedIsComplete'
  BY <1>0 DEF TypeOK, HandInv, CreatedIsComplete, InHand, Created, Goto, Reply
<1>5. AllOrNothing'
  BY <1>0 DEF TypeOK, HandInv, ListInv, AllOrNothing, InHand, Created, Goto, Reply
<1>6. QED
  BY <1>1, <1>2, <1>3, <1>4, <1>5 DEF Inv

\* Only what has not been created is removed.
LEMMA UndoInv ==
  ASSUME Inv, NEW p \in Calls, Undo(p)
  PROVE  Inv'
<1>0. TypeOK /\ HandInv /\ ListInv /\ CreatedIsComplete /\ AllOrNothing
  BY DEF Inv
<1>1. TypeOK'
  BY <1>0 DEF TypeOK, HandInv, InHand, Undo, Goto, Reply
<1>2. HandInv'
  BY <1>0 DEF TypeOK, HandInv, CreatedIsComplete, InHand, Undo, Goto, Reply
<1>3. ListInv'
  BY <1>0 DEF TypeOK, ListInv, AllOrNothing, InHand, Undo, Goto, Reply
<1>4. CreatedIsComplete'
  BY <1>0 DEF TypeOK, HandInv, CreatedIsComplete, InHand, Undo, Goto, Reply
<1>5. AllOrNothing'
  BY <1>0 DEF TypeOK, HandInv, ListInv, AllOrNothing, InHand, Undo, Goto, Reply
<1>6. QED
  BY <1>1, <1>2, <1>3, <1>4, <1>5 DEF Inv

LEMMA UndoFailsInv ==
  ASSUME Inv, NEW p \in Calls, UndoFails(p)
  PROVE  Inv'
<1>0. TypeOK /\ HandInv /\ ListInv /\ CreatedIsComplete /\ AllOrNothing
  BY DEF Inv
<1>1. TypeOK'
  BY <1>0 DEF TypeOK, HandInv, InHand, UndoFails, Goto, Reply
<1>2. HandInv'
  BY <1>0 DEF TypeOK, HandInv, CreatedIsComplete, InHand, UndoFails, Goto, Reply
<1>3. ListInv'
  BY <1>0 DEF TypeOK, ListInv, AllOrNothing, InHand, UndoFails, Goto, Reply
<1>4. CreatedIsComplete'
  BY <1>0 DEF TypeOK, HandInv, CreatedIsComplete, InHand, UndoFails, Goto, Reply
<1>5. AllOrNothing'
  BY <1>0 DEF TypeOK, HandInv, ListInv, AllOrNothing, InHand, UndoFails, Goto, Reply
<1>6. QED
  BY <1>1, <1>2, <1>3, <1>4, <1>5 DEF Inv

LEMMA StopInv ==
  ASSUME Inv, Stop
  PROVE  Inv'
<1>0. TypeOK /\ HandInv /\ ListInv /\ CreatedIsComplete /\ AllOrNothing
  BY DEF Inv
<1>1. TypeOK'
  BY <1>0 DEF TypeOK, HandInv, InHand, Stop
<1>2. HandInv'
  BY <1>0 DEF TypeOK, HandInv, CreatedIsComplete, InHand, Stop
<1>3. ListInv'
  BY <1>0 DEF TypeOK, ListInv, AllOrNothing, InHand, Stop
<1>4. CreatedIsComplete'
  BY <1>0 DEF TypeOK, HandInv, CreatedIsComplete, InHand, Stop
<1>5. AllOrNothing'
  BY <1>0 DEF TypeOK, HandInv, ListInv, AllOrNothing, InHand, Stop
<1>6. QED
  BY <1>1, <1>2, <1>3, <1>4, <1>5 DEF Inv

LEMMA InvStep == Inv /\ [Next]_vars => Inv'
<1> SUFFICES ASSUME Inv, [Next]_vars PROVE Inv'
  OBVIOUS
<1>1. CASE \E p \in Calls : Handler(p)
  BY <1>1, ReceiveInv, HangUpInv, MkdirInv, MkdirRefusedInv, GitInitInv, GitFailsInv,
     AddedInv, AddRefusedInv, AddFailsInv, CreatedInv, UndoInv, UndoFailsInv DEF Handler
<1>2. CASE Stop
  BY <1>2, StopInv
<1>3. CASE UNCHANGED vars
  BY <1>3 DEF vars, Inv, TypeOK, HandInv, ListInv, CreatedIsComplete, AllOrNothing
<1>4. QED
  BY <1>1, <1>2, <1>3 DEF Next

-----------------------------------------------------------------------------

\* The inductive invariant of the shim: one request at most has the directory
\* in hand, it knows how far it is, and nobody has it after a 201.
THEOREM Safety == Spec => []Inv
<1>1. Init => Inv
  BY InitInv
<1>2. Inv /\ [Next]_vars => Inv'
  BY InvStep
<1>3. QED
  BY <1>1, <1>2, PTL DEF Spec

\* At most one request has the directory of an id in hand (os.Mkdir).
THEOREM OneMaker == Spec => []TypeOK
<1>1. Inv => TypeOK
  BY DEF Inv
<1>2. QED
  BY <1>1, Safety, PTL

\* A source that was answered 201 keeps its repository and its registration,
\* whatever other requests fail, hang up or are stopped (create).
THEOREM CreatedSourcesAreComplete == Spec => []CreatedIsComplete
<1>1. Inv => CreatedIsComplete
  BY DEF Inv
<1>2. QED
  BY <1>1, Safety, PTL

\* The disk and GBrain agree whenever no request is at work, unless a
\* registration was reported as failed or a directory could not be removed
\* (create's deferred clean-up).
THEOREM CreationIsAllOrNothing == Spec => []AllOrNothing
<1>1. Inv => AllOrNothing
  BY DEF Inv
<1>2. QED
  BY <1>1, Safety, PTL
=============================================================================
