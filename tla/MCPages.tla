------------------------------- MODULE MCPages -------------------------------
EXTENDS Pages, TLC

MCTours == {<<"language", "timezone", "other">>,
            <<"timezone", "other">>,
            <<"other", "console_setup", "other">>,
            <<"other", "wireless">>,
            <<"other", "prepare", "other">>,
            <<"other", "usersetup">>,
            <<"other", "partman", "other">>}

(* An empty disk; a Mint beside free space; Mint and another, both to be   *)
(* kept or replaced; one locked by BitLocker; several, on two disks.       *)
Found(n, m, same, extra, d, shrink) ==
  [systems |-> n, mints |-> m, current |-> same, extra |-> extra, disks |-> d, shrink |-> shrink]
MCLayouts == {Found(0, 0, FALSE, {"use_device"}, 1, {}),
              Found(1, 1, FALSE, {"use_device", "replace", "resize", "biggest_free"}, 1, {1}),
              Found(2, 1, TRUE, {"use_device", "replace", "reuse"}, 2, {}),
              Found(1, 0, FALSE, {"use_device", "resize", "bitlocker"}, 1, {1}),
              Found(3, 1, FALSE, {"use_device", "resize"}, 2, {2})}

(* The plugins as their files declare them (plugins/ubi-*.py).             *)
Plugin(name, weight, after, oem) ==
  [name |-> name, weight |-> weight, after |-> after, before |-> <<>>, hidden |-> {}, oem |-> oem]
Tens == {Plugin("language", 10, <<"">>, TRUE),
         Plugin("console_setup", 10, <<"language">>, TRUE),
         Plugin("timezone", 10, <<"partman", "console_setup">>, TRUE),
         Plugin("usersetup", 10, <<"timezone">>, TRUE)}
Elevens == {Plugin("prepare", 11, <<"wireless">>, FALSE),
            Plugin("partman", 11, <<"prepare">>, FALSE)}
Twelves == {Plugin("wireless", 12, <<"console_setup">>, TRUE),
            Plugin("network", 12, <<"usersetup">>, TRUE)}
MCLoadings == {s \o t \o u : s \in SetToSeqs(Twelves), t \in SetToSeqs(Elevens), u \in SetToSeqs(Tens)}

MCUserOf == ("" :> "") @@ ("Ann" :> "ann")
MCHostOf == ("" :> "") @@ ("ann" :> "ann-pc") @@ ("eve" :> "eve-pc")
MCPreseeds == {[full |-> "", user |-> "", host |-> ""],
               [full |-> "Ann", user |-> "eve", host |-> "eve-pc"]}

MCVariantsOf == ("us" :> {"us", "dvorak"}) @@ ("ru" :> {"ru"}) @@ ("rs" :> {"rs", "yz"})
                @@ ("la" :> {})
MCDefaultOf == ("us" :> "us") @@ ("ru" :> "ru") @@ ("rs" :> "rs") @@ ("la" :> "la")
MCTwoScripts == ("rs" :> "latin") @@ ("yz" :> "latinyz")

MCZoneOf == ("Paris" :> "Europe/Paris") @@ ("Leeds" :> "Europe/London") @@ ("Pole" :> "Pole")
MCCountryOf == ("Europe/Paris" :> "FR") @@ ("Europe/London" :> "GB")
MCPlaceOf == ("Europe/Paris" :> "Paris") @@ ("Europe/London" :> "Leeds")

MCMachines == {[secureboot |-> FALSE, rst |-> FALSE], [secureboot |-> TRUE, rst |-> FALSE],
               [secureboot |-> FALSE, rst |-> TRUE]}
===============================================================================
