----------------------------- MODULE MCPlayback -----------------------------
EXTENDS Playback
SourcesOf == {"uLatino", "uEnglish", "vEnglish"}
Languages == [s \in SourcesOf |-> IF s = "uLatino" THEN "es-419" ELSE "en"]
ProvidersOf == [s \in SourcesOf |-> IF s = "vEnglish" THEN "vidlink" ELSE "unlimplay"]
KnownProviders == <<"unlimplay", "vidlink">>
Lives == [s \in SourcesOf |-> IF s = "vEnglish" THEN 1 ELSE 0]
OneAsked == {"en"}
Blocked == {"uEnglish"}
=============================================================================
