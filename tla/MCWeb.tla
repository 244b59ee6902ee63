------------------------------- MODULE MCWeb -------------------------------
(* The web application: its image cache and its one form.  They share no   *)
(* state, so their steps are not interleaved: each behaviour is one of     *)
(* images or one of overrides.                                             *)
EXTENDS ImageCache, Overrides

VARIABLE part

webVars == <<cacheVars, overrideVars, part>>

WebInit == Init /\ OverridesInit /\ part \in {"images", "overrides"}

WebNext == \/ part = "images" /\ Next /\ UNCHANGED <<overrideVars, part>>
           \/ part = "overrides" /\ OverridesNext /\ UNCHANGED <<cacheVars, part>>

WebSpec == WebInit /\ [][WebNext]_webVars

Url(scheme, host, path) == [scheme |-> scheme, host |-> host, path |-> path]
Text(url) == [text |-> url, path |-> Blank, url |-> Blank]
Dict(path, url) == [text |-> Blank, path |-> path, url |-> url]

Other == Url("https", "example.com", "/a.jpg")

(* The shapes of photo_urls, a row without a usable photo and one whose    *)
(* photo is hosted elsewhere.                                              *)
MCPhotoLists ==
    { <<Text(OnCdn(CarPicture))>>,
      <<Text(Url("http", OldCDN, "/b.jpg"))>>,
      <<Text(Blank), Text(Url("", "", "b.jpg")), Dict(Url("", "", CarPicture), Other)>>,
      <<Dict(Blank, Url("", "", "/b.jpg"))>>,
      <<Text(Other)>> }
MCOtherSources == {OnCdn("/b.jpg"), Url("https", OldCDN, CarPicture), Other}
=============================================================================
