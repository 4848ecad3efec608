--------------------------- MODULE MCAssetInventory ---------------------------
(* Instances of AssetInventory for TLC.                                    *)
EXTENDS AssetInventory, MCAssetStore
===============================================================================
