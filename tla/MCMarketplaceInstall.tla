------------------------ MODULE MCMarketplaceInstall ------------------------
(***************************************************************************)
(* An instance of MarketplaceInstall: a collection of a collection of a    *)
(* plugin, a job that installs the outer collection, one that installs the *)
(* plugin by itself, and clients that remove what is installed.            *)
(***************************************************************************)
EXTENDS MarketplaceInstall, TLC

CONSTANTS j1, j2, bundle, pack, item

MCRoot == (j1 :> bundle) @@ (j2 :> item)
MCMembers == (bundle :> {pack}) @@ (pack :> {item}) @@ (item :> {})

=============================================================================
