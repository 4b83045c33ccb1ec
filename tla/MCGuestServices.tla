--------------------------- MODULE MCGuestServices ---------------------------
(***************************************************************************)
(* GuestServices on a small instance.  A part that rests has one initial   *)
(* state.                                                                  *)
(***************************************************************************)
EXTENDS GuestServices

MCModules == <<"cxx", "nimble", "game">>
MCNames == <<"n1", "n2">>

(* "a" and "assets/a" are aliases of one stream; "lawn" is cut out of "pkg". *)
MCEntry == [k \in AssetKeys |->
              IF k \in {"a", "assets/a"} THEN "A"
              ELSE IF k = "b" THEN "B" ELSE IF k = "pkg" THEN "P" ELSE NoOne]
MCSize == [A |-> 2, B |-> 1, P |-> 3]

MCLayouts == {<<"obb", "apk", "asset1", "lib", "asset2", "endapk">>,
              <<"apk", "lib", "asset1", "asset2", "endapk", "obb">>}

(* Init, each part's initial states cut to one where the part rests.  The   *)
(* first hash may be any; only whether the second differs matters.          *)
MCInit ==
  /\ part \in Services
  /\ L!Init /\ lHash["n1"] = 1
  /\ part # "loader" => lHash["n2"] = 1 /\ compat = [n \in L!NameSet |-> "none"]
  /\ H!Init /\ M!Init /\ J!Init /\ D!Init /\ U!Init /\ C!Init
  /\ S!Init
  /\ part # "ssl" => status = [c \in S!Certs |-> "trusted"] /\ usable = {} /\ csrngOpen
  /\ O!Init
  /\ part # "obb" => oReady
  /\ I!Init
  /\ part # "install" => iCache = "none" /\ mayFail /\ layout[1] = "obb"
  /\ T!Init
  /\ G!Init
  /\ part # "tags" => ~ dir
  /\ X!Init
  /\ part # "index" => files = {}
  /\ A!Init
  /\ part # "assets" => mounted /\ modRoot /\ disk = {}
  /\ P!Init
  /\ N!Init
  /\ part # "nav" => probes = {}

MCSpec == MCInit /\ [][Next]_vars
=============================================================================
