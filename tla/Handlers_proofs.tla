--------------------------- MODULE Handlers_proofs ---------------------------
(***************************************************************************)
(* What the steps of the server process do to its slots, for any number of *)
(* handlers.  The proofs about the components that share Handlers rest on  *)
(* these lemmas: a slot changes by its own steps alone, one handler at a   *)
(* time is in flight until two have overlapped, and a restart leaves none. *)
(***************************************************************************)
EXTENDS Handlers, TLAPS

\* Every slot has a value, and until two handlers have overlapped one is in flight.
ServerOK ==
    /\ req = [r \in Requests |-> req[r]]
    /\ overlapped \in BOOLEAN
    /\ ~overlapped => \A r, s \in InFlight : r = s

LEMMA ServerStarts ==
    ASSUME NEW slots, NEW requests, NEW stops, ServerInit(slots, requests, stops)
    PROVE  ServerOK /\ \A r \in Requests : req[r] \in {Idle, Unused}
<1>1. /\ req = [r \in Requests |-> IF r \in slots THEN Idle ELSE Unused]
      /\ overlapped = FALSE
  BY DEF ServerInit
<1>2. \A r \in Requests : req[r] \in {Idle, Unused}
  BY <1>1
<1>3. InFlight = {}
  BY <1>2 DEF InFlight
<1> QED
  BY <1>1, <1>2, <1>3 DEF ServerOK

\* A handler that arrives takes a free slot; when others are in flight they overlap.
LEMMA Entered ==
    ASSUME ServerOK, NEW r \in Requests, NEW local, Enter(r, local)
    PROVE  /\ ServerOK'
           /\ req[r] = Idle /\ req'[r] = local
           /\ \A s \in Requests \ {r} : req'[s] = req[s]
           /\ overlapped => overlapped'
           /\ ~overlapped' => \A s \in Requests : req[s] \in {Idle, Unused}
<1>1. /\ req' = [req EXCEPT ![r] = local] /\ req[r] = Idle
      /\ overlapped' = (overlapped \/ ~Quiescent)
  BY DEF Enter
<1>2. req'[r] = local /\ \A s \in Requests \ {r} : req'[s] = req[s]
  BY <1>1 DEF ServerOK
<1>3. ~overlapped' => \A s \in Requests : req[s] \in {Idle, Unused}
  BY <1>1 DEF Quiescent, InFlight
<1>4. ~overlapped' => \A s, t \in InFlight' : s = t
  BY <1>2, <1>3 DEF InFlight
<1>5. req' = [s \in Requests |-> req'[s]]
  BY <1>1 DEF ServerOK
<1>6. overlapped' \in BOOLEAN
  BY <1>1
<1> QED
  BY <1>1, <1>2, <1>3, <1>4, <1>5, <1>6 DEF ServerOK

LEMMA Begun ==
    ASSUME ServerOK, NEW r \in Requests, NEW local, Begin(r, local) \/ Fire(r, local)
    PROVE  /\ ServerOK'
           /\ req[r] = Idle /\ req'[r] = local
           /\ \A s \in Requests \ {r} : req'[s] = req[s]
           /\ overlapped => overlapped'
           /\ ~overlapped' => \A s \in Requests : req[s] \in {Idle, Unused}
<1>1. Enter(r, local)
  BY DEF Begin, Fire
<1> QED
  BY <1>1, Entered

\* A handler in flight goes on, or is done, in its own slot.
LEMMA Continued ==
    ASSUME ServerOK, NEW r \in Requests, req[r] \notin {Idle, Unused},
           NEW local, Continue(r, local)
    PROVE  /\ ServerOK'
           /\ req'[r] = local
           /\ \A s \in Requests \ {r} : req'[s] = req[s]
           /\ overlapped' = overlapped
           /\ ~overlapped => \A s \in Requests \ {r} : req[s] \in {Idle, Unused}
<1>1. req' = [req EXCEPT ![r] = local] /\ overlapped' = overlapped
  BY DEF Continue
<1>2. req'[r] = local /\ \A s \in Requests \ {r} : req'[s] = req[s]
  BY <1>1 DEF ServerOK
<1>3. ~overlapped => \A s \in Requests \ {r} : req[s] \in {Idle, Unused}
  BY DEF ServerOK, InFlight
<1>4. ~overlapped => \A s, t \in InFlight' : s = t
  BY <1>2, <1>3 DEF InFlight
<1>5. req' = [s \in Requests |-> req'[s]]
  BY <1>1 DEF ServerOK
<1> QED
  BY <1>1, <1>2, <1>3, <1>4, <1>5 DEF ServerOK

LEMMA Restarted ==
    ASSUME ServerOK, Restart
    PROVE  /\ ServerOK' /\ overlapped'
           /\ \A r \in Requests : req'[r] \in {Idle, Unused}
<1>1. /\ req' = [r \in Requests |-> IF r \in InFlight THEN Idle ELSE req[r]]
      /\ overlapped' = TRUE
  BY DEF Restart
<1>2. \A r \in Requests : req'[r] \in {Idle, Unused}
  BY <1>1 DEF InFlight
<1> QED
  BY <1>1, <1>2 DEF ServerOK

=============================================================================
