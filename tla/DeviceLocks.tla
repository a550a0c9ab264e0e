---------------------------- MODULE DeviceLocks ----------------------------
(***************************************************************************)
(* What the file layer keeps of its promise about TIOCEXCL.  Descriptors   *)
(* are numbers and refer to devices.  A descriptor is given the lock of    *)
(* its device when no other open descriptor refers to the device; the code *)
(* makes one exception, the topmost open descriptor, which the promise     *)
(* does not make.  A device has one holder, and while the lock is held no  *)
(* further descriptor comes to refer to the device.                        *)
(***************************************************************************)
EXTENDS Integers

CONSTANTS Fds, Devices, NoDevice, NoFd

VARIABLES at,       \* the device each descriptor refers to
          holder    \* the descriptor that holds the lock of each device

locks == <<at, holder>>

Init == at \in [Fds -> Devices \cup {NoDevice}] /\ holder = [d \in Devices |-> NoFd]

Attach(i, d) == /\ holder[d] = NoFd
                /\ at[i] # NoDevice => holder[at[i]] # i
                /\ at' = [at EXCEPT ![i] = d]
                /\ UNCHANGED holder

Detach(i) == /\ at[i] # NoDevice
             /\ at' = [at EXCEPT ![i] = NoDevice]
             /\ holder' = [d \in Devices |-> IF holder[d] = i THEN NoFd ELSE holder[d]]

Sharers(i) == {j \in Fds \ {i} : at[j] = at[i]}
Topmost(j) == \A k \in Fds : at[k] # NoDevice => k <= j

Lock(i) == /\ at[i] # NoDevice /\ holder[at[i]] = NoFd
           /\ \A j \in Sharers(i) : Topmost(j)
           /\ holder' = [holder EXCEPT ![at[i]] = i]
           /\ UNCHANGED at

Unlock(i) == /\ at[i] # NoDevice /\ holder[at[i]] = i
             /\ holder' = [holder EXCEPT ![at[i]] = NoFd]
             /\ UNCHANGED at

Next == \E i \in Fds : Detach(i) \/ Lock(i) \/ Unlock(i) \/ \E d \in Devices : Attach(i, d)

Spec == Init /\ [][Next]_locks
=============================================================================
