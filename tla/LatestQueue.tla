----------------------------- MODULE LatestQueue -----------------------------
(***************************************************************************)
(* What _LatestReadResultQueue promises to the workers that put read       *)
(* results and to the publisher that takes them, without its OrderedDict   *)
(* and without its condition variable.                                     *)
(*                                                                         *)
(* The queue is a mailbox with one place per key.  A put fills the places  *)
(* of its keys, whatever they held; a take empties one place, and never    *)
(* one that was filled after another place that is still full.             *)
(***************************************************************************)
CONSTANTS Keys,        \* one key per tag, and one per device for whole results
          Values,      \* what a place can hold
          Vacant       \* the content of an empty place, not in Values

VARIABLES box,         \* box[k]: the newest content put under k and not taken
          older,       \* <<j, k>> \in older: j was filled before k
          written      \* the keys that the latest step filled

promise == <<box, older, written>>

Full == {k \in Keys : box[k] # Vacant}

TypeOK == /\ box \in [Keys -> Values \cup {Vacant}]
          /\ older \subseteq Full \X Full
          /\ written \subseteq Full

Init == /\ box = [k \in Keys |-> Vacant]
        /\ older = {}
        /\ written = {}

(* `fresh` orders the keys K that one put writes together, one by one.     *)
StrictOrder(fresh, K) ==
  /\ \A j, k \in K : j # k <=> (<<j, k>> \in fresh \/ <<k, j>> \in fresh)
  /\ \A j, k, l \in K : <<j, k>> \in fresh /\ <<k, l>> \in fresh => <<j, l>> \in fresh

(* The keys that are already full and not written keep their content and   *)
(* their order, and all of them come before the written ones.              *)
Put == \E K \in (SUBSET Keys) \ {{}} :
         LET kept == Full \ K
         IN  /\ written' = K
             /\ \A k \in K : box'[k] \in Values
             /\ \A k \in Keys \ K : box'[k] = box[k]
             /\ older' \ (K \X K) = (older \cap (kept \X kept)) \cup (kept \X K)
             /\ StrictOrder(older' \cap (K \X K), K)

Take == \E k \in Full :
          /\ \A j \in Full : <<j, k>> \notin older
          /\ box' = [box EXCEPT ![k] = Vacant]
          /\ written' = {}
          /\ older' = {p \in older : p[1] # k /\ p[2] # k}

Next == Put \/ Take

Spec == Init /\ [][Next]_promise
==============================================================================
