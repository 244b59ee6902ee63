----------------------------- MODULE MCVitrine -----------------------------
(* Instances of Vitrine over the rows that listings of two cars parse to:  *)
(* each car is listed in several spellings of the same data, some of them  *)
(* without a mileage, in both shapes of the detail and of the list.        *)
EXTENDS Payloads

MCIds == 1 .. 4
MCColorRu == [c \in {"black"} |-> "ru"]

Digit(n) == DigitSeq[n + 1]
Grouped(n) == <<Digit(n \div 1000), ",", Digit((n \div 100) % 10),
                Digit((n \div 10) % 10), Digit(n % 10)>>
Photo(shape, host, path) == [shape |-> shape, host |-> host, path |-> path]

(* Two cars of one model whose mileages begin with the same digit.         *)
November == [yyyy |-> <<"2", "0", "2", "5">>, mm |-> <<"1", "1">>]
CarP == [brand |-> "b", model |-> "m", month |-> November, mileage |-> 4027,
         color |-> "black", photo |-> "p"]
CarQ == [CarP EXCEPT !.mileage = 4530, !.photo = "q"]
MCCars == {CarP, CarQ}

MCWritten == [n \in {4027, 4530} |-> {Grouped(n)}]

RealDetail(car, spec, ym, host) ==
    [category |-> [manufacturerName |-> "b", modelName |-> "m", yearMonth |-> ym],
     spec |-> spec,
     advertisement |-> [price |-> Number(car.mileage)],
     photos |-> <<Photo("dict", host, car.photo), Photo("dict", "", NULL)>>]

WithMileage(mileage) == [mileage |-> mileage, colorName |-> "black"]

LegacyDetail(car, ym, photos) ==
    [car |-> [manufacturer |-> "b", model |-> "m", modelYear |-> ym,
              mileage |-> Text(Grouped(car.mileage)),
              color |-> [name |-> "black"], photos |-> photos]]

(* 2025-11, in the spellings that _parse_year_month accepts.               *)
Compact == Text(<<"2", "0", "2", "5", "1", "1">>)
Iso == Text(<<"2", "0", "2", "5", ".", "1", "1">>)
Korean == Text(<<"2", "5", KrYear, " ", "1", "1", KrMonth>>)

(* A list page in each shape, both with an entry that is skipped; the      *)
(* second leaves brand and model to the detail.                            *)
MCPages ==
    [car \in MCCars |->
       {[SearchResults |-> [list |->
           <<[Id |-> Number(1), Manufacturer |-> "b", Model |-> "m"], [Id |-> Text(<<"x">>)]>>]],
        [SearchResults |-> [EncarSearchResults |-> <<[Model |-> "m"], [Id |-> Text(<<"1">>)]>>]]}]

(* What a car may be listed as; the last of each has no mileage.           *)
MCDetails ==
    [car \in MCCars |->
       {RealDetail(car, WithMileage(Text(Grouped(car.mileage))), Iso, ""),
        RealDetail(car, [colorName |-> "black"], Compact, "")}
         \cup IF car = CarQ THEN {}
              ELSE {RealDetail(car, WithMileage(Number(car.mileage)), Number(202511), CDN),
                    LegacyDetail(car, Korean, <<>>)}]

MCRows == UNION {RowsOf[car] : car \in Cars}
=============================================================================
