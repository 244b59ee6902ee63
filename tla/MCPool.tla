------------------------------- MODULE MCPool -------------------------------
(* A sheet of three pairs: a domestic model with a token, and two imports  *)
(* with one Korean name.  Encar lists the domestic model with the token in *)
(* front only, and the imports under that name.                            *)
EXTENDS Pool

Label(brand, base, tokens, gen) ==
    [brand |-> brand, base |-> base, tokens |-> tokens, gen |-> gen]

Avante == Label("Hyundai", "Avante", <<"Hybrid">>, "CN7")
Series3 == Label("BMW", "3 Series", <<>>, "G20")
Series3GT == Label("BMW", "3 Series GT", <<>>, "F34")

MCDomesticCell == [b \in {"Hyundai"} |-> "KrHyundai"]
MCImportCell == [b \in {"Audi"} |-> "KrAudi"]
MCFamilyKr == [b \in {"Avante"} |-> "KrAvante"]
MCTokenKr == [t \in {"Hybrid"} |-> "KrHybrid"]
MCSubmodelKr == [x \in {<<"BMW", "3 Series">>, <<"BMW", "3 Series GT">>} |-> "Kr3"]
MCLabels == <<Series3, Series3GT, Avante>>

Hand == [type |-> "Y", manufacturer |-> "KrHyundai", group |-> <<"KrAvante">>, model |-> <<"hand">>]
AvanteQuery == [Hand EXCEPT !.model = <<"KrHybrid", "KrAvante", "CN7">>]
BmwQuery == [type |-> "N", manufacturer |-> "BMW", group |-> <<"Kr3">>, model |-> <<"Kr3">>]
MCStocked == {AvanteQuery, BmwQuery}

MCSlugs == {Slug(Avante), Slug(Series3), Slug(Series3GT)}
MCQueries == {NoQuery, Hand} \cup UNION {AllCandidates(x) : x \in {Avante, Series3, Series3GT}}

Draft(label, on, q) == [slug |-> Slug(label), on |-> on, q |-> q]

MCInitialFiles == {<<Draft(Avante, TRUE, Hand), Draft(Series3, TRUE, BmwQuery)>>,
                   <<Draft(Series3, TRUE, NoQuery), Draft(Avante, FALSE, Hand)>>}
MCDrafts == {Draft(Avante, TRUE, AvanteQuery), Draft(Avante, TRUE, Bad),
             Draft(Series3, FALSE, BmwQuery)}
=============================================================================
