------------------------------ MODULE Payloads ------------------------------
(***************************************************************************)
(* The vitrine over the cars that encar lists: what encar's payloads say   *)
(* of a car, in how many ways they may spell it, and the rows that Listing *)
(* makes of them.  A payload may leave out the month, the mileage, the     *)
(* colour and the photos; what it states, it states of its car.            *)
(***************************************************************************)
EXTENDS Vitrine, Listing

CONSTANTS Cars,         \* [brand, model, month, mileage, color, photo]
          Written,      \* mileage -> the texts it may be written as
          Details,      \* car -> the payloads its detail pages may have
          Pages         \* car -> the list pages it may be found on

(* A month is written with four and two digits; two digits of the year are *)
(* enough for the years that can be told from them.                        *)
IsMonth(x) ==
    LET yy == IntOf(SubSeq(x.yyyy, 3, 4)) IN
    /\ x.yyyy \in Seq(Digits) /\ Len(x.yyyy) = 4
    /\ x.mm \in Seq(Digits) /\ Len(x.mm) = 2 /\ IntOf(x.mm) \in 1 .. 12
    /\ SubSeq(x.yyyy, 1, 2) = IF yy < 50 THEN <<"2", "0">> ELSE <<"1", "9">>

(* The month with and without its leading zero.                            *)
ShortMonths(x) == {x.mm} \cup IF x.mm[1] = "0" THEN {<<x.mm[2]>>} ELSE {}

IsoTexts(yyyy, m) == {Text(yyyy \o <<mark>> \o m) : mark \in DateMarks}
KoreanTexts(yy, m) ==
    {Text(yy \o <<KrYear>> \o blank \o m \o <<KrMonth>>) : blank \in {<<>>, <<" ">>}}

MonthValues(x) ==
    {Text(x.yyyy \o x.mm), Number(IntOf(x.yyyy \o x.mm))}
      \cup UNION {IsoTexts(x.yyyy, m) \cup KoreanTexts(SubSeq(x.yyyy, 3, 4), m) :
                   m \in ShortMonths(x)}

MileageValues(n) == {Number(n)} \cup {Text(t) : t \in Written[n]}

(* The photo of a car as the legacy shape and as the other one has it.     *)
PhotoText(car) == [shape |-> "text", host |-> CDN, path |-> car.photo]
PhotosOf(car) == {PhotoText(car)}
    \cup [shape : {"dict"}, host : {"", CDN}, path : {NULL, car.photo}]

(* Where a payload of either shape says what, NULL where it does not.      *)
Stated(detail) ==
    IF "car" \in DOMAIN detail
    THEN LET car == detail.car
             year == Get(car, "year")
         IN [brand |-> Get(car, "manufacturer"), model |-> Get(car, "model"),
             month |-> IF year \in {NULL, Text(<<>>)} THEN Get(car, "modelYear") ELSE year,
             mileage |-> Get(car, "mileage"),
             color |-> Get(Section(car, "color"), "name"),
             photos |-> Section(car, "photos")]
    ELSE LET category == Section(detail, "category")
             spec == Section(detail, "spec")
         IN [brand |-> Get(category, "manufacturerName"), model |-> Get(category, "modelName"),
             month |-> Get(category, "yearMonth"),
             mileage |-> Get(spec, "mileage"),
             color |-> Get(spec, "colorName"),
             photos |-> Section(detail, "photos")]

Describes(detail, car) ==
    LET stated == Stated(detail) IN
    /\ stated.brand = car.brand /\ stated.model = car.model
    /\ stated.month \in MonthValues(car.month) \cup {NULL}
    /\ stated.mileage \in MileageValues(car.mileage) \cup {NULL}
    /\ stated.color \in {car.color, NULL}
    /\ stated.photos \in Seq(PhotosOf(car))

Complete(detail) ==
    LET stated == Stated(detail) IN
    stated.month # NULL /\ stated.mileage # NULL /\ stated.color # NULL

(* An entry of a list may leave brand and model to the detail, but does    *)
(* not say null, which str() would make a name of.                         *)
Offers(page, car) ==
    LET results == ExtractResults(page) IN
    /\ results \in Seq(Range(results))
    /\ \A entry \in Range(results) :
          HasId(entry) => /\ GetOr(entry, "Manufacturer", "") \in {car.brand, ""}
                          /\ GetOr(entry, "Model", "") \in {car.model, ""}

-----------------------------------------------------------------------------
(* The key of a car, which is what tells two cars apart.                   *)
KeyOf(car) ==
    [brand |-> car.brand, model |-> car.model,
     year_month |-> [year |-> IntOf(car.month.yyyy), month |-> IntOf(car.month.mm)],
     mileage_km |-> car.mileage, color_original |-> car.color]

ASSUME CarsAssumption ==
    /\ NULL \notin Nat /\ NULL \notin [year : Nat, month : Nat] /\ NULL # ValueError
    /\ \A car \in Cars : /\ {car.brand, car.model} \cap {NULL, ""} = {}
                         /\ IsMonth(car.month)
                         /\ car.mileage \in Nat
                         /\ NULL \notin {car.color, car.photo}
    /\ \A a, b \in Cars : a # b => KeyOf(a) # KeyOf(b) /\ a.photo # b.photo

ASSUME NullAssumption == NULL # ""

(* A text of a number has its digits, and separators anywhere.             *)
ASSUME WrittenAssumption ==
    \A car \in Cars : \A t \in Written[car.mileage] :
        /\ t \in Seq(Digits \cup Separators)
        /\ Range(t) \cap Digits # {}
        /\ IntOf(Bare(t)) = car.mileage

ASSUME DetailsAssumption ==
    \A car \in Cars : /\ \A detail \in Details[car] : Describes(detail, car)
                      /\ \A page \in Pages[car] : Offers(page, car)

Items(car) == UNION {Range(ParseSearchList(page)) : page \in Pages[car]}

RowsOf ==
    [car \in Cars |->
       {ParseCarDetail(detail, item) : detail \in Details[car], item \in Items(car)}]

CompleteRowsOf ==
    [car \in Cars |->
       {ParseCarDetail(detail, item) :
          detail \in {d \in Details[car] : Complete(d)}, item \in Items(car)}]

ASSUME ListedAssumption == Rows \subseteq UNION {RowsOf[car] : car \in Cars}

-----------------------------------------------------------------------------
(* The vitrine shows each physical car exactly once (dedup.py:3): right    *)
(* after a pass no two visible listings with complete data are of one car, *)
(* however the shape of the payload spells them, and a listing is hidden   *)
(* only behind one of the same car.                                        *)
EachCarOnce ==
    /\ \A i, j \in visible \ touched : i # j =>
          \A car \in Cars : ~({cars[i], cars[j]} \subseteq CompleteRowsOf[car])
    /\ \A i \in DOMAIN cars \ (visible \cup touched) :
          \E j \in visible :
             j \in touched \/ \E car \in Cars : {cars[i], cars[j]} \subseteq RowsOf[car]
=============================================================================
