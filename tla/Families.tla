------------------------------ MODULE Families ------------------------------
(***************************************************************************)
(* Objects of class Family (family.rb): what load_family_preferences keeps *)
(* of a CSV file and what get_brush_preferences makes of it.               *)
(*                                                                         *)
(* A file is the sequence of its rows; a field that is empty or missing is *)
(* Nil.  Names of members are left out.  CSV.read parses the whole file    *)
(* before the first change, and the file does not change before            *)
(* CSV.foreach reads it again, so a load changes everything or nothing.    *)
(***************************************************************************)
EXTENDS Integers, Sequences, FiniteSets

Sets == INSTANCE FiniteSetsExt

CONSTANTS
  Family,           \* the Family objects
  Colour,           \* brush colours
  Id,               \* members' ids
  DateText,         \* texts in the column contract_effective_date
  Nil,              \* Ruby's nil
  File              \* the files that can be loaded

Row ==
  [id                      : Id,
   brush_color             : Colour \cup {Nil},
   primary_insured_id      : Id \cup {Nil},
   contract_effective_date : DateText \cup {Nil}]

ASSUME FileType == File \subseteq Seq(Row)

ASSUME NilIsNoField == Nil \notin Colour \cup Id \cup DateText

ASSUME NilIsNoList == Nil \notin Seq(Row) \cup Seq(Colour \cup {Nil})

VARIABLES
  family_data,              \* family -> rows of its last load, or Nil
  brush_preferences,        \* family -> colours of those rows, or Nil
  primary_insured_id,       \* family -> id or Nil
  contract_effective_date   \* family -> date text or Nil

familyVars ==
  <<family_data, brush_preferences, primary_insured_id, contract_effective_date>>

FamiliesTypeOK ==
  /\ family_data \in [Family -> Seq(Row) \cup {Nil}]
  /\ brush_preferences \in [Family -> Seq(Colour \cup {Nil}) \cup {Nil}]
  /\ primary_insured_id \in [Family -> Id \cup {Nil}]
  /\ contract_effective_date \in [Family -> DateText \cup {Nil}]

FamiliesInit ==
  /\ family_data = [f \in Family |-> Nil]
  /\ brush_preferences = [f \in Family |-> Nil]
  /\ primary_insured_id = [f \in Family |-> Nil]
  /\ contract_effective_date = [f \in Family |-> Nil]

(* Mutant: every load replaces the value. *)
FirstSetAnew(old, column) ==
  LET given == {i \in DOMAIN column : column[i] # Nil}
  IN  IF given = {} THEN old ELSE column[Sets!Min(given)]

(* A value once set is kept; else the first one the column has is taken. *)
FirstSet(old, column) ==
  LET given == {i \in DOMAIN column : column[i] # Nil}
  IN  IF old # Nil \/ given = {} THEN old ELSE column[Sets!Min(given)]

Colours(rows) == [i \in DOMAIN rows |-> rows[i].brush_color]

PrimaryIds(rows) == [i \in DOMAIN rows |-> rows[i].primary_insured_id]

EffectiveDates(rows) == [i \in DOMAIN rows |-> rows[i].contract_effective_date]

(* The two lists start anew on every load, the id and the date do not. *)
Load(f, rows) ==
  /\ family_data' = [family_data EXCEPT ![f] = rows]
  /\ brush_preferences' = [brush_preferences EXCEPT ![f] = Colours(rows)]
  /\ primary_insured_id' =
       [primary_insured_id EXCEPT ![f] = FirstSet(@, PrimaryIds(rows))]
  /\ contract_effective_date' =
       [contract_effective_date EXCEPT ![f] = FirstSet(@, EffectiveDates(rows))]

(* The Hash counted from a list.  It is iterated in the order in which its
   keys were inserted: a colour is counted where it occurs first, and where
   it occurs again there is nothing left to count.                         *)
Tally(list) ==
  [i \in DOMAIN list |->
     [colour |-> list[i],
      count  |-> IF \E j \in 1..(i - 1) : list[j] = list[i] THEN 0
                 ELSE Cardinality({j \in DOMAIN list : list[j] = list[i]})]]

get_brush_preferences(f) ==
  IF brush_preferences[f] = Nil THEN Nil ELSE Tally(brush_preferences[f])
=============================================================================
