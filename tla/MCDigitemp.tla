---------------------------- MODULE MCDigitemp ----------------------------
(* Digitemp for TLC: codes of six bits, of which three are the family and    *)
(* the last two a checksum of the others.                                    *)
EXTENDS Digitemp

Summed(c) == c[5] = (c[1] + c[2]) % 2 /\ c[6] = (c[3] + c[4]) % 2
AllValid == {c \in Code : Summed(c)}

Rom(f1, f2, f3, b) == <<f1, f2, f3, b, (f1 + f2) % 2, (f3 + b) % 2>>
Thermo  == Rom(0, 0, 1, 0)
Thermo2 == Rom(0, 0, 1, 1)
Battery == Rom(0, 1, 0, 0)
Counter == Rom(0, 1, 1, 1)
Logger  == Rom(1, 0, 0, 0)
Ports2  == Rom(1, 0, 1, 0)
Port    == Rom(1, 0, 1, 1)
Switch  == Rom(1, 1, 0, 0)
Other   == Rom(1, 1, 0, 1)
K1 == Rom(1, 1, 1, 0)
K2 == Rom(1, 1, 1, 1)

AllRoms == {Thermo, Thermo2, Battery, Counter, Logger, Ports2, Port, Switch, Other, K1, K2}
AllKinds ==
  [r \in AllRoms |->
     CASE r \in {Thermo, Thermo2} -> "DS1820"
       [] r = Battery -> "DS2438"
       [] r = Counter -> "DS2423"
       [] r = Logger -> "DS1923"
       [] r = Ports2 -> "DS2413"
       [] r = Port -> "DS28EA00"
       [] r = Switch -> "DS2406"
       [] r = Other -> "other"
       [] r \in {K1, K2} -> "DS2409"]

At(hub, l) == [hub |-> hub, line |-> l]
Layout(where) == [r \in AllRoms |-> IF r \in DOMAIN where THEN where[r] ELSE Nowhere]

\* Sensors on the LAN and on both branches of one coupler; two couplers of which one has
\* something on its auxiliary branch only; a lone coupler.
AllLayouts ==
  {Layout(K1 :> Lan @@ Thermo :> Lan @@ Battery :> At(K1, "main") @@ Thermo2 :> At(K1, "aux")),
   Layout(K1 :> Lan @@ K2 :> Lan @@ Counter :> At(K1, "aux") @@ Logger :> At(K1, "main")
          @@ Port :> At(K2, "aux") @@ Switch :> At(K2, "aux")
          @@ Ports2 :> At(K1, "main") @@ Other :> Lan),
   Layout(K2 :> Lan)}

\* One of the sensors has been moved since the list was written.
Stale == [roms |-> <<Thermo, Thermo2>>, couplers |-> <<K1>>,
          croms |-> <<[line |-> "main", at |-> 1, rom |-> Battery]>>]
AllFiles == {NoFile, Stale}

Command == [walk |-> FALSE, init |-> FALSE, all |-> FALSE, one |-> FALSE, sensor |-> 0,
            ad |-> FALSE, columns |-> FALSE, samples |-> 1]
AllOptions ==
  {[Command EXCEPT !.walk = TRUE],
   [Command EXCEPT !.init = TRUE, !.all = TRUE, !.samples = 2],
   [Command EXCEPT !.init = TRUE, !.all = TRUE, !.ad = TRUE, !.columns = TRUE],
   [Command EXCEPT !.all = TRUE, !.samples = 0],
   [Command EXCEPT !.all = TRUE, !.one = TRUE, !.sensor = 2, !.samples = 3],
   [Command EXCEPT !.one = TRUE, !.sensor = 9]}
=============================================================================
