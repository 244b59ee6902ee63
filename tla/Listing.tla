------------------------------ MODULE Listing ------------------------------
(***************************************************************************)
(* From the JSON of one listing to the row of the cars table:              *)
(* parsers/list_page.py finds the listings of a page, parsers/details.py   *)
(* parses the detail of one in either of its two shapes.                   *)
(*                                                                         *)
(* A JSON object is a function from the keys it has; a section of a wrong  *)
(* type is treated as a missing one, which is what _as_dict makes of it.   *)
(* A scalar is NULL, a number or a text; a text is a sequence of           *)
(* characters, of which only digits, separators and the two Korean date    *)
(* marks are told apart.                                                   *)
(***************************************************************************)
EXTENDS Lists, Dedup, Integers, FiniteSetsExt

(* What date(...) and int(...) raise, and what becomes of the listing.     *)
ValueError == [error |-> "ValueError"]

Number(n) == [type |-> "number", value |-> n]
Text(chars) == [type |-> "text", chars |-> chars]

Section(object, key) == IF key \in DOMAIN object THEN object[key] ELSE <<>>
Get(object, key) == IF key \in DOMAIN object THEN object[key] ELSE NULL
GetOr(object, key, default) == IF key \in DOMAIN object THEN object[key] ELSE default

(* str() of a name: a null becomes the text None.                          *)
StrOrNone(name) == IF name = NULL THEN "None" ELSE name

(* Python's `a or b`, of names.                                            *)
Or(a, b) == IF a \in {NULL, ""} THEN b ELSE a

-----------------------------------------------------------------------------
(* Numbers and dates                                                       *)
DigitSeq == <<"0", "1", "2", "3", "4", "5", "6", "7", "8", "9">>
Digits == Range(DigitSeq)
Separators == {",", " "}
DateMarks == {"-", "."}
KrYear == "nyeon"
KrMonth == "wol"

DigitOf(c) == (CHOOSE d \in 1 .. 10 : DigitSeq[d] = c) - 1

IntOf(chars) ==
    LET value[n \in 0 .. Len(chars)] ==
          IF n = 0 THEN 0 ELSE 10 * value[n - 1] + DigitOf(chars[n])
    IN value[Len(chars)]

(* \d+ at position k of chars: the longest run of digits, at most `most`.  *)
DigitRun(chars, k, most) ==
    LET ends == {j \in k .. Len(chars) :
                   j - k < most /\ \A i \in k .. j : chars[i] \in Digits}
    IN IF ends = {} THEN <<>> ELSE SubSeq(chars, k, Max(ends))

Bare(chars) == Only(chars, Range(chars) \ Separators)

(* A plausible bug: separators are kept.                                   *)
BugToInt(value) ==
    IF value = NULL THEN NULL
    ELSE IF value.type = "number" THEN value.value
    ELSE LET starts == {k \in DOMAIN value.chars : value.chars[k] \in Digits}
         IN IF starts = {} THEN NULL
            ELSE IntOf(DigitRun(value.chars, Min(starts), Len(value.chars)))

(* _to_int: the first number of a text, separators left out.               *)
ToInt(value) ==
    IF value = NULL THEN NULL
    ELSE IF value.type = "number" THEN value.value
    ELSE LET chars == Bare(value.chars)
             starts == {k \in DOMAIN chars : chars[k] \in Digits}
         IN IF starts = {} THEN NULL
            ELSE IntOf(DigitRun(chars, Min(starts), Len(chars)))

(* str(value), of a number with six digits.                                *)
Str(value) ==
    IF value.type = "text" THEN value.chars
    ELSE LET power == <<100000, 10000, 1000, 100, 10, 1>>
         IN [k \in 1 .. 6 |-> DigitSeq[((value.value \div power[k]) % 10) + 1]]

(* date(year, month, 1)                                                    *)
Date(year, month) == IF month = 0 THEN ValueError ELSE [year |-> year, month |-> month]

IsCompact(s) ==                                    \* \d{4}\d{2}, month 1-12
    Len(s) = 6 /\ Range(s) \subseteq Digits /\ IntOf(SubSeq(s, 5, 6)) \in 1 .. 12

IsIso(s) ==                                        \* \d{4}[-.]\d{1,2}
    /\ Len(s) > 5 /\ s[5] \in DateMarks
    /\ Range(SubSeq(s, 1, 4)) \cup {s[6]} \subseteq Digits

(* (\d{2})nyeon\s*(\d{1,2})wol, at k: the position of the month, or 0.     *)
KrMonthAt(s, k) ==
    LET months == {j \in k + 3 .. Len(s) :
                     /\ \A i \in k + 3 .. j - 1 : s[i] = " "
                     /\ LET run == DigitRun(s, j, 2) IN
                        run # <<>> /\ j + Len(run) <= Len(s) /\ s[j + Len(run)] = KrMonth}
    IN IF /\ k + 2 < Len(s) /\ s[k + 2] = KrYear
          /\ {s[k], s[k + 1]} \subseteq Digits /\ months # {}
       THEN Min(months) ELSE 0

KrStarts(s) == {k \in DOMAIN s : KrMonthAt(s, k) # 0}

(* A year of two digits, and a month of one or two of them.                *)
FullYear(yy) == IF yy < 50 THEN 2000 + yy ELSE 1900 + yy
Capped(chars) == Min({IntOf(chars), 12})

(* _parse_year_month, its three patterns in order.                         *)
ParseYearMonth(value) ==
    IF value = NULL \/ value = Number(0) \/ value = Text(<<>>) THEN NULL
    ELSE LET s == Str(value)
             k == Min(KrStarts(s))
         IN IF IsCompact(s) THEN Date(IntOf(SubSeq(s, 1, 4)), IntOf(SubSeq(s, 5, 6)))
            ELSE IF IsIso(s) THEN Date(IntOf(SubSeq(s, 1, 4)), Capped(DigitRun(s, 6, 2)))
            ELSE IF KrStarts(s) = {} THEN NULL
            ELSE Date(FullYear(IntOf(SubSeq(s, k, k + 1))),
                      Capped(DigitRun(s, KrMonthAt(s, k), 2)))

-----------------------------------------------------------------------------
(* The detail of a car.  Names, and photo URLs after the host was added,   *)
(* are opaque; the host of a relative path is CDN.                         *)
CDN == "ci.encar.com"

(* translate_color: an unknown value passes through.                       *)
Translate(map, value) == GetOr(map, value, value)

CONSTANT ColorRu        \* COLOR_KO_TO_RU

Row(brand, model, ym, mileage, color, price, photos, raw) ==
    IF ym = ValueError THEN ValueError
    ELSE [brand |-> brand, model |-> model, year_month |-> ym, mileage_km |-> mileage,
          color_original |-> color,
          color_ru |-> IF color = NULL THEN NULL ELSE Translate(ColorRu, color),
          price_krw |-> price, photo_urls |-> photos, raw_data |-> raw]

(* _parse_legacy: everything under `car`; texts only count as photos, and  *)
(* the price is in KRW already.                                            *)
ParseLegacy(payload, item) ==
    LET car == payload.car
        year == Get(car, "year")
    IN Row(Or(item.brand, GetOr(car, "manufacturer", "")),
           Or(item.model, GetOr(car, "model", "")),
           ParseYearMonth(IF year \in {NULL, Text(<<>>)} THEN Get(car, "modelYear") ELSE year),
           ToInt(Get(car, "mileage")),
           Get(Section(car, "color"), "name"),
           ToInt(Get(car, "price")),
           LET photos == Section(car, "photos")
           IN Only(photos, {photo \in Range(photos) : photo.shape = "text"}),
           IF car = <<>> THEN NULL ELSE car)

(* Photos without a path are dropped, a path without host is put on the    *)
(* CDN.                                                                    *)
PhotoUrls(photos) ==
    LET withPath == Only(photos, {photo \in Range(photos) :
                                     photo.shape = "dict" /\ photo.path # NULL})
    IN [k \in DOMAIN withPath |->
          [withPath[k] EXCEPT !.shape = "text", !.host = Or(@, CDN)]]

(* _parse_real: one section per topic; the price is in units of 10 000.    *)
ParseReal(payload, item) ==
    LET category == Section(payload, "category")
        spec == Section(payload, "spec")
        price == ToInt(Get(Section(payload, "advertisement"), "price"))
    IN Row(Or(item.brand, GetOr(category, "manufacturerName", "")),
           Or(item.model, GetOr(category, "modelName", "")),
           ParseYearMonth(Get(category, "yearMonth")),
           ToInt(Get(spec, "mileage")),
           Get(spec, "colorName"),
           IF price = NULL THEN NULL ELSE price * 10000,
           PhotoUrls(Section(payload, "photos")),
           payload)

(* parse_car_detail: the legacy shape is the one with a `car` object.      *)
ParseCarDetail(payload, item) ==
    IF "car" \in DOMAIN payload THEN ParseLegacy(payload, item) ELSE ParseReal(payload, item)

-----------------------------------------------------------------------------
(* The list of a page: a JSON list directly under SearchResults (the field *)
(* `list` here), or under EncarSearchResults inside of it.                 *)
ExtractResults(page) ==
    LET results == Section(page, "SearchResults") IN
    IF "list" \in DOMAIN results THEN results.list ELSE Section(results, "EncarSearchResults")

(* int(entry["Id"]) does not raise.                                        *)
HasId(entry) ==
    LET id == Get(entry, "Id") IN
    /\ id # NULL
    /\ id.type = "text" => id.chars # <<>> /\ Range(id.chars) \subseteq Digits

(* parse_search_list: entries without a usable Id are skipped.             *)
ParseSearchList(page) ==
    LET results == ExtractResults(page)
        entries == Only(results, {entry \in Range(results) : HasId(entry)})
    IN [k \in DOMAIN entries |->
          [encar_id |-> ToInt(entries[k].Id),
           brand |-> StrOrNone(GetOr(entries[k], "Manufacturer", "")),
           model |-> StrOrNone(GetOr(entries[k], "Model", ""))]]
=============================================================================
