----------------------------- MODULE MCCatalog -----------------------------
(* Instances of Catalog: two processes and two listings, which are now two *)
(* cars and now one, by their mileage; the second may arrive, or either be *)
(* rewritten, during a pass of one process or of both.                     *)
EXTENDS Catalog

CONSTANTS p1, p2

Row(mileage, photos) ==
    [brand |-> "b", model |-> "m", year_month |-> "ym",
     mileage_km |-> mileage, color_original |-> "c", photo_urls |-> photos]

MCTwoIds == 1 .. 2
MCKeyRows == {Row(mileage, NULL) : mileage \in {10000, 10001}}

ASSUME RowsAssumption == ColumnsIndependent
=============================================================================
