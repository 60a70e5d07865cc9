---------------------------- MODULE MCScanExport ----------------------------
(***************************************************************************)
(* What Auctionator delivers in the run of ScanExport: one item with and   *)
(* without its link, the same link before its name is known, and an entry  *)
(* that is empty; and a player at a place of each kind, or not known, or   *)
(* whose clock is set back.                                                *)
(***************************************************************************)
EXTENDS SavedFile

Potion   == [itemId |-> 1, itemString |-> "item:1", name |-> "Potion", stackCount |-> 5]
Unlinked == [itemId |-> 1, itemString |-> "", name |-> "Potion", stackCount |-> 1]
Unnamed  == [itemId |-> 1, itemString |-> "item:1", name |-> "", stackCount |-> 1]
Missing  == [itemId |-> 0, itemString |-> "", name |-> "", stackCount |-> 0]

At(zone, subzone, uiMapID) ==
    [zone |-> zone, subzone |-> subzone, uiMapID |-> uiMapID, faction |-> "Horde",
     scanner |-> "Player-1", durationMs |-> 0]

City     == At("Orgrimmar", "", 1454)
Contexts ==
    {At("Tanaris", "Gadgetzan", 1446), At("Tanaris", "", 0),
     At("Schlingendorntal", "Booty Bay", 0), At("", "", 0),
     [City EXCEPT !.faction = ""], [City EXCEPT !.scanner = ""],
     [City EXCEPT !.durationMs = -1]}

Listings ==
    SeqOf({Potion, Unlinked}, 3) \cup
    {<<Unnamed, Potion>>, <<Potion, Unnamed>>, <<Unlinked, Unnamed, Potion>>,
     <<Missing>>, <<Potion, Missing, Unlinked>>}

Delivered ==
    [raw : Listings, context : {City}] \cup [raw : {<<Potion, Unlinked>>}, context : Contexts]

=============================================================================
