----------------------------- MODULE MCPipeline -----------------------------
(***************************************************************************)
(* Pipeline with two 8-K manifests of one accession (co-registrants), an    *)
(* 8-K of the next day and a 6-K.                                           *)
(***************************************************************************)
EXTENDS Pipeline, TLC

MCManifest    == 1..4
MCAccessionOf == <<1, 1, 3, 4>>
MCGenreOf     == <<"8-K", "8-K", "8-K", "6-K">>
MCDayOf       == <<0, 0, 1, 0>>
MCFirst       == <<"invalid", "good", "absent", "good">>
=============================================================================
