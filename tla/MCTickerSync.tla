---------------------------- MODULE MCTickerSync ----------------------------
(***************************************************************************)
(* TickerSync for TLC: see TickerSync.cfg.  Two passes over one symbol, of *)
(* kinds that share documents, interleave in every way; a pass over two    *)
(* symbols shows its tasks competing for one permit and one failing beside *)
(* the other.                                                              *)
(***************************************************************************)
EXTENDS TickerSync, TLC

CONSTANTS a, b, p, q

Run(kind, symbols) == [kind |-> kind, symbols |-> symbols, update |-> TRUE]
DryRun(kind)       == [kind |-> kind, symbols |-> {a}, update |-> FALSE]

Pairs == {<<"load", k>> : k \in {"load", "eod", "sentiments", "quotes"}}
         \cup {<<"eod", k>> : k \in {"eod", "sentiments", "quotes"}}
         \cup {<<"sentiments", "sentiments">>}

Overlapping == {p :> Run(k[1], {a}) @@ q :> Run(k[2], {a}) : k \in Pairs}
               \cup {p :> DryRun("eod") @@ q :> DryRun("sentiments")}

Wide == {p :> Run(k, {a, b}) @@ q :> Run("quotes", {}) : k \in {"load", "eod"}}

MCScenarios == Overlapping \cup Wide
=============================================================================
