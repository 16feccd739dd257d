---------------------------- MODULE NickRegistry ----------------------------
(***************************************************************************)
(* What the nickname index promises (spec 4.5): a case-insensitive map     *)
(* from nickname keys to clients in which a client holds at most one key,  *)
(* changed only by whole operations of one client: claiming a free key,   *)
(* releasing its own key, or moving its own key to a free one.  No         *)
(* operation ever takes a key from another client.                         *)
(***************************************************************************)
CONSTANTS Client, Key, NoClient

VARIABLE owner

\* A client's keys: at most one in every reachable state.
KeysOf(c) == {k \in Key : owner[k] = c}

\* Add: a client without a key takes a free one.
Claim(c, k) ==
    /\ owner[k] = NoClient
    /\ KeysOf(c) = {}
    /\ owner' = [owner EXCEPT ![k] = c]

\* Remove: a client gives up its key.
Release(c, k) ==
    /\ owner[k] = c
    /\ owner' = [owner EXCEPT ![k] = NoClient]

\* A nickname change: the client's key moves to a free one in one step.
Rename(c, j, k) ==
    /\ owner[j] = c
    /\ owner[k] = NoClient
    /\ owner' = [owner EXCEPT ![j] = NoClient, ![k] = c]

Init == owner = [k \in Key |-> NoClient]

Next ==
    \E c \in Client, j, k \in Key : Claim(c, k) \/ Release(c, k) \/ Rename(c, j, k)

Spec == Init /\ [][Next]_owner

\* The registry is a partial injection from clients to keys.
OneKeyEach ==
    \A j, k \in Key : owner[j] = owner[k] /\ owner[j] # NoClient => j = k

=============================================================================
