-------------------------- MODULE ShippingPromise ---------------------------
(***************************************************************************)
(* What the user stories promise the shipping manager (README.md:118-217), *)
(* each request answered in one step: a complete family gets the fewest    *)
(* boxes that hold a brush head for every member, and an incomplete one    *)
(* gets none.  Refills are for a family that has received starter boxes    *)
(* (README.md:161, DevelopmentNotes.txt:16-19).                            *)
(***************************************************************************)
EXTENDS Integers, Sequences, FiniteSets

CONSTANTS Family, Colour, Nil

VARIABLES
  members,          \* family -> its members' colours, or Nil before an import
  dated,            \* the families whose starter boxes can be dated
  schedulable,      \* the families whose refills can be dated
  received,         \* the families that were sent a starter box
  request,          \* <<operation, family>>, or Nil
  boxes             \* what the last request brought

vars == <<members, dated, schedulable, received, request, boxes>>

Occurrences(c, list) == Cardinality({i \in DOMAIN list : list[i] = c})

(* The places of all boxes. *)
Places(bs) == UNION {{i} \X DOMAIN bs[i].heads : i \in DOMAIN bs}

Packed(c, bs) == Cardinality({p \in Places(bs) : bs[p[1]].heads[p[2]] = c})

(* README.md:192 and 217, in tenths of an ounce *)
MailClass(b) ==
  IF 90 * Len(b.brushes) + 10 * Len(b.heads) + 76 * b.kits >= 160
  THEN "priority" ELSE "first"

Serves(bs, op, colours) ==
  LET capacity == IF op = "starter" THEN 2 ELSE 4
  IN
  /\ \A i \in DOMAIN bs :
       /\ Len(bs[i].heads) \in 1..capacity
       /\ i # Len(bs) => Len(bs[i].heads) = capacity
       /\ bs[i].brushes = IF op = "starter" THEN bs[i].heads ELSE << >>
       /\ bs[i].kits = Len(bs[i].heads)
       /\ bs[i].mail = MailClass(bs[i])
  /\ \A c \in Colour : Packed(c, bs) = Occurrences(c, colours)

Complete(op, f) ==
  /\ members[f] # Nil
  /\ Occurrences(Nil, members[f]) = 0
  /\ f \in IF op = "starter" THEN dated ELSE schedulable
  /\ op = "refill" => f \in received

Init ==
  /\ members = [f \in Family |-> Nil]
  /\ dated = {} /\ schedulable = {}
  /\ received = {}
  /\ request = Nil
  /\ boxes = << >>

Import(f) ==
  /\ request = Nil
  /\ \A g \in Family \ {f} : members'[g] = members[g]
  /\ members'[f] # Nil
  /\ dated \subseteq dated' /\ dated' \subseteq dated \cup {f}
  /\ schedulable \subseteq schedulable' /\ schedulable' \subseteq schedulable \cup {f}
  /\ boxes' = << >>
  /\ UNCHANGED <<received, request>>

Keep == UNCHANGED <<members, dated, schedulable>>

Request(op, f) ==
  /\ request = Nil
  /\ request' = <<op, f>>
  /\ boxes' = << >>
  /\ Keep /\ UNCHANGED received

(* A family without members is sent no box, and has not received one then. *)
Fulfil(op, f) ==
  /\ request = <<op, f>>
  /\ Complete(op, f)
  /\ Serves(boxes', op, members[f])
  /\ received' = IF op = "starter" /\ boxes' # << >> THEN received \cup {f} ELSE received
  /\ request' = Nil
  /\ Keep

(* Nobody whose data are complete goes without; an import may fail at any time. *)
Decline(op, f) ==
  /\ request \in {Nil, <<op, f>>}
  /\ op # "import" => ~ Complete(op, f)
  /\ request' = Nil
  /\ boxes' = << >>
  /\ Keep /\ UNCHANGED received

Next ==
  \E f \in Family :
    \/ Import(f)
    \/ \E op \in {"starter", "refill"} : Request(op, f) \/ Fulfil(op, f)
    \/ \E op \in {"import", "starter", "refill"} : Decline(op, f)

Spec == Init /\ [][Next]_vars
=============================================================================
