------------------------------ MODULE Session ------------------------------
(***************************************************************************)
(* What the connection protocol of libs/nexus promises the applications in *)
(* two windows, without its frames, timers or identifiers: a page enters a *)
(* session with a document of the other window only after both called      *)
(* connect(), and leaves it before it enters another.                      *)
(***************************************************************************)
EXTENDS Integers

CONSTANTS Side, Id

null == 0

VARIABLES
  loaded,  \* the document in each window, null while none is
  willing, \* whether the page in it has called connect()
  peer     \* the document each page is in session with, or null

vars == <<loaded, willing, peer>>

Other(s) == CHOOSE t \in Side : t # s

TypeOK == /\ loaded  \in [Side -> Id \cup {null}]
          /\ willing \in [Side -> BOOLEAN]
          /\ peer    \in [Side -> Id \cup {null}]

Init == /\ loaded  = [s \in Side |-> null]
        /\ willing = [s \in Side |-> FALSE]
        /\ peer    = [s \in Side |-> null]

\* No document is loaded twice.
Load(s) == /\ loaded[s] = null
           /\ \E i \in Id : /\ \A t \in Side : loaded[t] # i /\ peer[t] # i
                            /\ loaded' = [loaded EXCEPT ![s] = i]
           /\ UNCHANGED <<willing, peer>>

Leave(s) == /\ loaded[s] # null
            /\ loaded'  = [loaded EXCEPT ![s] = null]
            /\ willing' = [willing EXCEPT ![s] = FALSE]
            /\ peer'    = [peer EXCEPT ![s] = null]

Agree(s) == /\ loaded[s] # null /\ ~willing[s]
            /\ willing' = [willing EXCEPT ![s] = TRUE]
            /\ UNCHANGED <<loaded, peer>>

\* A document that has gone may still be taken for present.
Open(s) == /\ willing[s] /\ peer[s] = null
           /\ \E i \in Id : /\ i = loaded[Other(s)] => willing[Other(s)]
                            /\ i # loaded[s]
                            /\ peer' = [peer EXCEPT ![s] = i]
           /\ UNCHANGED <<loaded, willing>>

Close(s) == /\ peer[s] # null
            /\ peer' = [peer EXCEPT ![s] = null]
            /\ UNCHANGED <<loaded, willing>>

Next == \E s \in Side : Load(s) \/ Leave(s) \/ Agree(s) \/ Open(s) \/ Close(s)

Spec == Init /\ [][Next]_vars

\* A page is in session only when it has called connect(), and with a document
\* whose page has called it too: the consent of both that connect() stands for.
Consent == \A s \in Side :
  peer[s] # null => /\ willing[s]
                    /\ peer[s] = loaded[Other(s)] => willing[Other(s)]

=============================================================================
