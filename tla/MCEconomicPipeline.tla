------------------------- MODULE MCEconomicPipeline -------------------------
(***************************************************************************)
(* EconomicPipeline for TLC, over two years, a regional line and a NIPA    *)
(* table that is configured twice: a run of all three sections that clears *)
(* everything first, beside one that only adds to the census.              *)
(***************************************************************************)
EXTENDS EconomicPipeline

CONSTANTS full, again

MCSeries    == <<"CPI", "UNRATE">>
MCTables    == <<"T20100", "T20100">>
MCRegionals == <<<<"CAINC1", "1">>>>
MCReleased  == [e \in Range(MCRegionals) |-> 2024]
MCCounties  == {<<"06", "075">>, <<"04", "013">>}
MCTogether  == full :> NewConfig @@ again :> NewCensus(FALSE)
=============================================================================
