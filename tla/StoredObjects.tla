--------------------------- MODULE StoredObjects ---------------------------
(***************************************************************************)
(* What the object store promises the rest of C-Git, whatever fails and     *)
(* whoever is killed.  An object is absent, whole, coming (whoever is to    *)
(* make it whole is at it) or broken.  Storing an object takes it away      *)
(* until it is whole again; it breaks only where a write of it stops short, *)
(* and storing it once more mends it.  A reader that no writer disturbs     *)
(* learns the truth.  Nothing here knows of pieces, sizes and positions;    *)
(* module ObjectStore implements this one.                                  *)
(***************************************************************************)
CONSTANTS Processes, Objects,
          Dense,        \* objects that can be stored and not be read
          Faults        \* what the environment may do

VARIABLES state,        \* state[o]
          busy,         \* busy[p]: the call p is in, and the object
          last,         \* last[o]: who has begun to store o last
          disturbed,    \* those whose reading somebody's writing disturbs
          ret           \* ret[p]: what p's last call returned

vars == <<state, busy, last, disturbed, ret>>

Nobody == "nobody"
Idle == [op |-> "none"]
Write(o) == [op |-> "write", obj |-> o]
Read(o) == [op |-> "read", obj |-> o]

Writers(o) == {p \in Processes : busy[p] = Write(o)}
Readers(o) == {p \in Processes : busy[p] = Read(o)}

Init ==
    /\ state = [o \in Objects |-> "absent"]
    /\ busy = [p \in Processes |-> Idle]
    /\ last = [o \in Objects |-> Nobody]
    /\ disturbed = {}
    /\ ret = [p \in Processes |-> "OK"]

Returns(p, code) == /\ busy' = [busy EXCEPT ![p] = Idle]
                    /\ ret' = [ret EXCEPT ![p] = code]

\* A call that does nothing.
Refuse(p, o) ==
    /\ busy[p] = Idle
    /\ \/ \E code \in {"INVALID", "ERROR"} : Returns(p, code)
       \/ state[o] = "absent" /\ Returns(p, "NOTFOUND")
    /\ UNCHANGED <<state, last, disturbed>>

BeginWrite(p, o) ==
    /\ busy[p] = Idle /\ busy' = [busy EXCEPT ![p] = Write(o)]
    /\ state' = [state EXCEPT ![o] = "coming"]
    /\ last' = [last EXCEPT ![o] = p]
    /\ disturbed' = disturbed \cup Readers(o)
    /\ UNCHANGED ret

\* All of it is there: before any of its writers returns, perhaps.
Complete(o) ==
    /\ state[o] = "coming" /\ Writers(o) # {}
    /\ state' = [state EXCEPT ![o] = "whole"]
    /\ UNCHANGED <<busy, last, disturbed, ret>>

\* Success.  It is whole if nobody began to store it since, and if it is still
\* coming, then from others.
EndWrite(p, o) ==
    /\ p \in Writers(o)
    /\ last[o] = p => state[o] = "whole"
    /\ state[o] = "coming" => Writers(o) # {p}
    /\ Returns(p, "OK")
    /\ UNCHANGED <<state, last, disturbed>>

\* The write fails, or its process is killed.
StopWrite(p, o) ==
    /\ p \in Writers(o)
    /\ \/ "write" \in Faults /\ Returns(p, "ERROR")
       \/ "crash" \in Faults /\ busy' = [busy EXCEPT ![p] = Idle] /\ UNCHANGED ret
    /\ \/ UNCHANGED state /\ (state[o] = "coming" => Writers(o) # {p})
       \/ state[o] = "coming" /\ state' = [state EXCEPT ![o] = "broken"]
    /\ UNCHANGED <<last, disturbed>>

BeginRead(p, o) ==
    /\ busy[p] = Idle /\ busy' = [busy EXCEPT ![p] = Read(o)]
    /\ state[o] # "absent"
    /\ disturbed' = IF Writers(o) = {} THEN disturbed \ {p} ELSE disturbed \cup {p}
    /\ UNCHANGED <<state, last, ret>>

EndRead(p, o) ==
    /\ p \in Readers(o)
    /\ \E code \in {"OK", "ERROR"} :
        /\ code = "OK" => o \notin Dense
        /\ p \notin disturbed => (code = "OK" <=> state[o] = "whole" /\ o \notin Dense)
        /\ Returns(p, code)
    /\ UNCHANGED <<state, last, disturbed>>

StopRead(p, o) ==
    /\ p \in Readers(o)
    /\ \/ "read" \in Faults /\ Returns(p, "ERROR")
       \/ "crash" \in Faults /\ busy' = [busy EXCEPT ![p] = Idle] /\ UNCHANGED ret
    /\ UNCHANGED <<state, last, disturbed>>

Next ==
    \E o \in Objects :
        \/ Complete(o)
        \/ \E p \in Processes :
              \/ Refuse(p, o) \/ BeginWrite(p, o) \/ EndWrite(p, o) \/ StopWrite(p, o)
              \/ BeginRead(p, o) \/ EndRead(p, o) \/ StopRead(p, o)

Spec == Init /\ [][Next]_vars
=============================================================================
