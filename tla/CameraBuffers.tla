---------------------------- MODULE CameraBuffers ----------------------------
(***************************************************************************)
(* What the camera promises about its preview buffers: the driver fills a  *)
(* buffer only when nobody uses it, the thread may lend the frame it shows *)
(* to the recorder, and whichever of the two is done last gives the buffer *)
(* back.  Nothing but the end of the stream takes a buffer out of this     *)
(* circle, and the recorder has none then.                                 *)
(***************************************************************************)
CONSTANT Bufs

VARIABLES
    driver,     \* the buffers the driver has, to fill them
    users       \* who uses a buffer, of "thread" and "recorder"

vars == <<driver, users>>

Init == driver = {} /\ users = [b \in Bufs |-> {}]

\* the stream starts with all buffers; it does not end under a recorded frame
Start == /\ driver = {} /\ \A b \in Bufs : users[b] = {}
         /\ driver' = Bufs /\ UNCHANGED users
Stop  == /\ \A b \in Bufs : "recorder" \notin users[b]
         /\ driver' = {} /\ UNCHANGED users

Fill(b) == /\ b \in driver /\ users[b] = {}
           /\ driver' = driver \ {b} /\ users' = [users EXCEPT ![b] = {"thread"}]

Lend(b) == /\ users[b] = {"thread"}
           /\ users' = [users EXCEPT ![b] = {"thread", "recorder"}] /\ UNCHANGED driver

\* one user is done; the last one gives the buffer back
Finish(b, u) == /\ u \in users[b]
                /\ users' = [users EXCEPT ![b] = @ \ {u}]
                /\ driver' = IF users[b] = {u} THEN driver \union {b} ELSE driver

Next == \/ Start \/ Stop
        \/ \E b \in Bufs : Fill(b) \/ Lend(b) \/ \E u \in users[b] : Finish(b, u)
Spec == Init /\ [][Next]_vars
=============================================================================
