--------------------------- MODULE Session_proofs ---------------------------
(* Proof that the abstract session keeps its promise of consent.           *)
EXTENDS Session, TLAPS

\* A window is in session only with the document of another: the invariant
\* that makes Consent inductive, since a document loads unwilling.
NotItself == \A s \in Side : peer[s] # null => peer[s] # loaded[s]

IInv == TypeOK /\ Consent /\ NotItself

TwoSides == \E a, b \in Side : a # b /\ Side = {a, b}

LEMMA OtherSide ==
  ASSUME TwoSides
  PROVE  \A s \in Side : Other(s) \in Side /\ Other(s) # s /\ Other(Other(s)) = s
BY DEF TwoSides, Other

\* A page is only ever in session by the consent of both applications: what
\* handle-request.ts and connect.ts owe to the readiness of each channel.
THEOREM SessionsAreAgreed ==
  ASSUME TwoSides
  PROVE  Spec => []Consent
<1>1. Init => IInv
  BY DEF Init, IInv, TypeOK, Consent, NotItself, null
<1>2. IInv /\ [Next]_vars => IInv'
  <2> SUFFICES ASSUME IInv, [Next]_vars PROVE IInv'
    OBVIOUS
  <2> USE OtherSide DEF IInv, TypeOK, Consent, NotItself
  <2>1. CASE UNCHANGED vars
    BY <2>1 DEF vars
  <2>2. ASSUME NEW s \in Side, Load(s) PROVE IInv'
    BY <2>2 DEF Load
  <2>3. ASSUME NEW s \in Side, Leave(s) PROVE IInv'
    BY <2>3 DEF Leave
  <2>4. ASSUME NEW s \in Side, Agree(s) PROVE IInv'
    BY <2>4 DEF Agree
  <2>5. ASSUME NEW s \in Side, Open(s) PROVE IInv'
    BY <2>5 DEF Open
  <2>6. ASSUME NEW s \in Side, Close(s) PROVE IInv'
    BY <2>6 DEF Close
  <2>7. QED
    BY <2>1, <2>2, <2>3, <2>4, <2>5, <2>6 DEF Next
<1>3. IInv => Consent
  BY DEF IInv
<1>4. QED
  BY <1>1, <1>2, <1>3, PTL DEF Spec

=============================================================================
