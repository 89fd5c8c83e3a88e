---------------------------- MODULE MCBoxingKata ----------------------------
(***************************************************************************)
(* The report over the files of the specs and over incomplete ones.        *)
(***************************************************************************)
EXTENDS BoxingKata, TLC

CONSTANTS Blue, Pink, Green, NewYear, Spring, Garbled

MCColour == {Blue, Pink, Green}

MCId == {"2", "4"}

MCDateText == {NewYear, Spring, Garbled}

MCDay == NewYear :> 0 @@ Spring :> 59 @@ Garbled :> Nil

Member(id, colour, insured, date) ==
  [id |-> id, brush_color |-> colour,
   primary_insured_id |-> insured, contract_effective_date |-> date]

MCFile ==
  {<<Member("2", Blue, Nil, NewYear), Member("4", Pink, "2", Nil), Member("4", Blue, "2", Nil),
     Member("4", Green, "2", Nil), Member("4", Green, "2", Nil)>>,
   <<Member("2", Pink, "4", Nil), Member("4", Pink, Nil, Spring)>>,
   [i \in 1..7 |-> Member("2", Blue, Nil, NewYear)],
   <<Member("2", Blue, Nil, NewYear), Member("4", Nil, "2", Nil)>>,
   <<Member("2", Blue, Nil, Nil)>>,
   <<Member("2", Green, Nil, Garbled)>>,
   << >>}
=============================================================================
