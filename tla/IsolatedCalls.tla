---------------------------- MODULE IsolatedCalls ----------------------------
(***************************************************************************)
(* What the worker pool promises the callers of isolated tools: a call is  *)
(* answered at most once, by the response to a call of its own tool, which *)
(* no other call is given; it is its own as long as no two calls to one    *)
(* tool overlap.  Processes start for open calls only, and shutdown, which *)
(* is final, leaves none behind unless calls have overlapped.              *)
(***************************************************************************)
CONSTANTS Tools, Calls, NoCall

VARIABLES tool, call,
          got,    \* the call whose response a call returned
          live,   \* the processes that run
          down, solo

Open == {c \in Calls : call[c] = "open"}

Init ==
  /\ tool \in [Calls -> Tools]
  /\ call = [c \in Calls |-> "new"] /\ got = [c \in Calls |-> NoCall]
  /\ live = {} /\ down = FALSE /\ solo = TRUE

Begin(c) ==
  /\ call[c] = "new" /\ ~down
  /\ call' = [call EXCEPT ![c] = "open"]
  /\ solo' = (solo /\ \A d \in Open : tool[d] # tool[c])
  /\ UNCHANGED <<tool, got, live, down>>

Return(c) ==
  \E d \in Calls :
    /\ c \in Open /\ call' = [call EXCEPT ![c] = "returned"]
    /\ got' = [got EXCEPT ![c] = d]
    /\ tool[d] = tool[c] /\ call[d] # "new" /\ \A e \in Calls : got[e] # d
    /\ solo => d = c
    /\ UNCHANGED <<tool, live, down, solo>>

Raise(c) ==
  /\ c \in Open /\ call' = [call EXCEPT ![c] = "raised"]
  /\ live' \subseteq live
  /\ UNCHANGED <<tool, got, down, solo>>

Start(w) ==
  /\ Open # {} /\ w \notin live
  /\ live' = live \cup {w}
  /\ UNCHANGED <<tool, call, got, down, solo>>

End == live' \subseteq live /\ UNCHANGED <<tool, call, got, down, solo>>

Shutdown ==
  /\ ~down /\ Open = {}
  /\ down' = TRUE
  /\ live' \subseteq live /\ (solo => live' = {})
  /\ UNCHANGED <<tool, call, got, solo>>

Next ==
  \/ End \/ Shutdown
  \/ \E c \in Calls : Begin(c) \/ Return(c) \/ Raise(c)
  \/ \E w \in live' : Start(w)

Spec == Init /\ [][Next]_<<tool, call, got, live, down, solo>>
=============================================================================
