----------------------------- MODULE BuildPool -----------------------------
(***************************************************************************)
(* How build_pool.py turns the (brand, family) pairs of an Excel sheet     *)
(* into the items of models.yaml: which search filters it tries for a pair,*)
(* in which order, and which one it keeps.                                 *)
(*                                                                         *)
(* A label is a pair of the sheet, split the way _strip_tokens and         *)
(* _extract_gen_code split its text; a name is the sequence of its words;  *)
(* a query stands for the q expression built from its four cells.          *)
(***************************************************************************)
EXTENDS Lists, Integers, Sequences, FiniteSets, SequencesExt, TLC

CONSTANTS DomesticCell,   \* DOMESTIC_BRAND_KR: brand -> Manufacturer cell
          ImportCell,     \* IMPORT_MANUFACTURER_NAME, the same for imports
          FamilyKr,       \* FAMILY_BASE_KR: base name -> ModelGroup cell
          TokenKr,        \* TOKEN_KR: token -> Korean word
          SubmodelKr,     \* BMW_SUBMODEL_KR: <<brand, base>> -> Korean word,
                          \* that of the longest prefix of the base name
          Labels,         \* the sheet, sorted by brand and family
          NoGen           \* a label without a generation code

NoQuery == [type |-> "", manufacturer |-> "", group |-> <<>>, model |-> <<>>]

IsDomestic(brand) == brand \in DOMAIN DomesticCell
CarType(brand) == IF IsDomestic(brand) THEN "Y" ELSE "N"

Cell(cells, brand) == IF brand \in DOMAIN cells THEN cells[brand] ELSE brand

Query(label, manufacturer, group, model) ==
    [type |-> CarType(label.brand), manufacturer |-> manufacturer,
     group |-> group, model |-> model]

Named(words, gen) == IF gen = NoGen THEN words ELSE Append(words, gen)

-----------------------------------------------------------------------------
(* Candidates: those tried first, in order, and the rest, which are tried  *)
(* in the order of a Python set.                                           *)

(* Korean names of a domestic model.  Without a generation code only the   *)
(* first of the sequence exists.                                           *)
KrNames(label) ==
    LET base == <<FamilyKr[label.base]>>
        words == [k \in DOMAIN label.tokens |-> TokenKr[label.tokens[k]]]
        orders == {[k \in DOMAIN words |-> words[perm[k]]] :
                      perm \in Permutations(DOMAIN words)}
    IN IF label.gen = NoGen THEN [first |-> <<base \o words>>, rest |-> {}]
       ELSE [first |-> << Named(base, label.gen),
                          Named(base \o words, label.gen),
                          Named(words \o base, label.gen) >>,
             rest |-> UNION {{Named(w \o base, label.gen),
                              Named(base \o w, label.gen)} : w \in orders}]

(* Group and model of an import: with the code, or without it in one or in *)
(* both cells.                                                             *)
Variants(base, gen) ==
    LET full == Named(base, gen)
    IN << <<base, full>>, <<full, full>>, <<base, base>> >>

ImportQueries(label) ==
    LET known == Cell(ImportCell, label.brand)
        english == Variants(<<label.base>>, label.gen)
        korean == IF <<label.brand, label.base>> \in DOMAIN SubmodelKr
                  THEN Variants(<<SubmodelKr[<<label.brand, label.base>>]>>, label.gen)
                  ELSE <<>>
        Under(cell) == [k \in 1 .. Len(english \o korean) |->
                          LET v == (english \o korean)[k]
                          IN Query(label, cell, v[1], v[2])]
    IN Under(known) \o (IF known = label.brand THEN <<>> ELSE Under(label.brand))

Unmapped(label) == IsDomestic(label.brand) /\ label.base \notin DOMAIN FamilyKr

Candidates(label) ==
    IF Unmapped(label) THEN [first |-> <<>>, rest |-> {}]
    ELSE IF IsDomestic(label.brand)
    THEN LET names == KrNames(label)
             Of(name) == Query(label, DomesticCell[label.brand],
                               <<FamilyKr[label.base]>>, name)
         IN [first |-> [k \in DOMAIN names.first |-> Of(names.first[k])],
             rest |-> {Of(name) : name \in names.rest}]
    ELSE [first |-> ImportQueries(label), rest |-> {}]

AllCandidates(label) == ToSet(Candidates(label).first) \cup Candidates(label).rest

-----------------------------------------------------------------------------
(* resolve_pair: the first candidate with a positive Count wins; `found`   *)
(* are the queries for which the probe returns one.                        *)

BugWinners(label, found) == AllCandidates(label)   \* the Count is not looked at
Winners(label, found) ==
    LET c == Candidates(label)
        hits == {k \in DOMAIN c.first : c.first[k] \in found}
    IN IF hits # {} THEN {c.first[CHOOSE k \in hits : \A j \in hits : k <= j]}
       ELSE c.rest \cap found

(* _slugify looks at the family only: two brands may share a slug.         *)
Slug(label) == [base |-> label.base, tokens |-> label.tokens, gen |-> label.gen]

Unresolved(label) == [slug |-> Slug(label), on |-> FALSE, q |-> NoQuery]

Items(label, found) ==
    IF Winners(label, found) = {} THEN {Unresolved(label)}
    ELSE {[slug |-> Slug(label), on |-> TRUE, q |-> q] : q \in Winners(label, found)}

(* _to_models_yaml writes the domestic brands and then the others, each    *)
(* with its pairs in the order of the sheet.                               *)
Section(domestic) == Only(Labels, {l \in Range(Labels) : IsDomestic(l.brand) = domestic})

BugInFileOrder == Section(TRUE)         \* the imports are forgotten
InFileOrder == Section(TRUE) \o Section(FALSE)

(* The sheet is a list.                                                    *)
ASSUME SheetAssumption == Labels \in Seq(Range(Labels))

(* No two brands share a Manufacturer cell.                                *)
ImportCells(brand) == {Cell(ImportCell, brand), brand}
ASSUME TablesAssumption ==
    /\ IsInjective(DomesticCell)
    /\ \A j, k \in DOMAIN InFileOrder :
          LET a == InFileOrder[j].brand
              b == InFileOrder[k].brand
          IN ~IsDomestic(a) /\ ~IsDomestic(b) /\ ImportCells(a) \cap ImportCells(b) # {}
                => a = b

Pools(found) ==
    {pool \in [DOMAIN InFileOrder ->
                 UNION {Items(InFileOrder[k], found) : k \in DOMAIN InFileOrder}] :
        \A k \in DOMAIN InFileOrder : pool[k] \in Items(InFileOrder[k], found)}

(* The buckets of _write_report.                                           *)
Report(pool) ==
    LET on == {k \in DOMAIN pool : pool[k].on}
        Brand(k) == InFileOrder[k].brand
        listed == {Brand(k) : k \in on}
    IN [resolved |-> on,
        no_candidate |-> {k \in DOMAIN pool \ on : Brand(k) \in listed},
        no_listings |-> {k \in DOMAIN pool \ on : Brand(k) \notin listed}]
=============================================================================
