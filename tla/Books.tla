-------------------------------- MODULE Books --------------------------------
(***************************************************************************)
(* What the tables of the store promise together: whatever is entered is   *)
(* entered once, for a client that is known, and refers to what is that    *)
(* client's already; it never leaves and never changes hands. Only an      *)
(* order may come to refer to something else, an address that was entered, *)
(* for this client or for another.                                         *)
(***************************************************************************)

CONSTANTS
  Things, Clients, Nobody,
  Orders,  \* the things that may come to refer to another address
  Places   \* the addresses

VARIABLES
  known,  \* the clients
  owner,  \* the client of each thing that was entered, Nobody for the others
  refers  \* what each thing refers to

Belongings(c) == {t \in Things : owner[t] = c}

Init ==
  /\ known \subseteq Clients
  /\ owner \in [Things -> known \cup {Nobody}]
  /\ refers \in [Things -> SUBSET Things]
  /\ \A t \in Things :
       refers[t] \subseteq IF owner[t] = Nobody THEN {} ELSE Belongings(owner[t])

Meet(c) == known' = known \cup {c} /\ UNCHANGED <<owner, refers>>

Enter(t, c) ==
  /\ owner[t] = Nobody /\ c \in known
  /\ owner' = [owner EXCEPT ![t] = c]
  /\ \E s \in SUBSET Belongings(c) : refers' = [refers EXCEPT ![t] = s]
  /\ UNCHANGED known

Redirect(t) ==
  /\ owner[t] # Nobody
  /\ \E p \in Places :
       owner[p] # Nobody /\ refers' = [refers EXCEPT ![t] = {p}]
  /\ UNCHANGED <<known, owner>>

Next ==
  \/ \E c \in Clients : Meet(c)
  \/ \E t \in Things, c \in Clients : Enter(t, c)
  \/ \E t \in Orders : Redirect(t)

Spec == Init /\ [][Next]_<<known, owner, refers>>
=============================================================================
