----------------------------- MODULE MCReleases -----------------------------
EXTENDS Releases

(* Edition 1 of the documents opens a second shard and a new language, and *)
(* retires another one; its sections keep their counts and change rows.    *)
MCRows ==
    [documents |-> (0 :> <<"en", "be_x_old", "EN">> @@ 1 :> <<"en", "fr", "simple", "en", "EN">>),
     sections |-> (0 :> <<"en", "null">> @@ 1 :> <<"blank", "en">>)]
=============================================================================
