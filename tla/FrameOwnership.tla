--------------------------- MODULE FrameOwnership ---------------------------
(***************************************************************************)
(* What pm_alloc promises its callers (kernel/pmman.c, abstractly): page   *)
(* frames are free or owned, a request for n pages is answered with n      *)
(* consecutive free frames that become the caller's for ever, and it is    *)
(* refused only when there are no n consecutive free frames in a segment.  *)
(* A grant may put the frame that follows it out of use.                   *)
(***************************************************************************)
EXTENDS Integers

CONSTANTS
  Frames,     \* the numbers of the page frames
  Clients,    \* the cores
  MaxPages    \* bound: the longest run a client asks for

VARIABLES
  segments,   \* the sets of consecutive frames the allocator manages
  free,       \* the frames that can be granted
  pending,    \* per client, the number of pages asked for, 0 when none
  owner       \* per client, the set of frames granted to it

vars == <<segments, free, pending, owner>>

Init ==
  /\ segments = {}
  /\ free = {}
  /\ pending = [c \in Clients |-> 0]
  /\ owner = [c \in Clients |-> {}]

(* n consecutive free frames of one segment, from f on. *)
Fits(f, n) ==
  /\ f .. (f + n - 1) \subseteq free
  /\ \E sg \in segments : f .. (f + n - 1) \subseteq sg

AddFrames(fs) ==
  /\ fs \cap UNION segments = {}
  /\ segments' = segments \cup {fs}
  /\ free' = free \cup fs
  /\ UNCHANGED <<pending, owner>>

Withdraw(fs) ==
  /\ fs \subseteq free
  /\ free' = free \ fs
  /\ UNCHANGED <<segments, pending, owner>>

Request(c, n) ==
  /\ pending[c] = 0
  /\ pending' = [pending EXCEPT ![c] = n]
  /\ UNCHANGED <<segments, free, owner>>

Grant(c, f) ==
  LET n   == pending[c]
      run == f .. (f + n - 1)
  IN /\ n > 0
     /\ Fits(f, n)
     /\ pending' = [pending EXCEPT ![c] = 0]
     /\ owner' = [owner EXCEPT ![c] = @ \cup run]
     /\ free' \in {free \ run, free \ (run \cup {f + n})}
     /\ UNCHANGED segments

Refuse(c) ==
  /\ pending[c] > 0
  /\ ~ \E f \in Frames : Fits(f, pending[c])
  /\ pending' = [pending EXCEPT ![c] = 0]
  /\ UNCHANGED <<segments, free, owner>>

Next ==
  \/ \E lo, hi \in Frames : lo <= hi /\ (AddFrames(lo .. hi) \/ Withdraw(lo .. hi))
  \/ \E c \in Clients : \/ \E n \in 1..MaxPages : Request(c, n)
                        \/ \E f \in Frames : Grant(c, f)
                        \/ Refuse(c)

Spec == Init /\ [][Next]_vars

(* Two owners never share a frame, and what is owned is never free. *)
OwnershipExclusive ==
  /\ \A c, d \in Clients : c # d => owner[c] \cap owner[d] = {}
  /\ \A c \in Clients : owner[c] \cap free = {}

=============================================================================
