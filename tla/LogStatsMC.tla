----------------------------- MODULE LogStatsMC -----------------------------
(* Small instances of LogStats: four short files, one URL written in two ways. *)
EXTENDS LogStats

CONSTANTS a, b, c, d

Slash == 47
PlainUrl == <<Slash, 97>>                    \* /a
EscapedUrl == <<Slash, Percent, 54, 49>>     \* /%61
Site == <<115>>

Of(url, bytes, referer) == [url |-> url, bytes |-> bytes, referer |-> referer]

\* Numbers that saturate and totals that wrap at Word are among them.
Lines == (a :> <<Of(PlainUrl, 5, Site), Skipped>>)
         @@ (b :> <<Of(PlainUrl, 20, NoReferer), Of(EscapedUrl, 9, Site)>>)
         @@ (c :> <<Of(<<Slash>>, 3, NoReferer)>>)
         @@ (d :> <<>>)
=============================================================================
