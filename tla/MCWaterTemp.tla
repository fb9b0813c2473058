------------------------------ MODULE MCWaterTemp ------------------------------
(* Addresses for the run of WaterTemp: any two differ in three bits or more. *)
EXTENDS WaterTemp, Crc8, TLC

Rom(word) == [p \in Position |-> word[p + 1]]

SomeCodes ==
    {Rom(<<0,0,0,0,0>>), Rom(<<1,1,1,0,0>>), Rom(<<0,0,1,1,1>>), Rom(<<1,1,0,1,1>>)}

TwoRoms ==
    "DS18B20" :> Rom(<<1,1,1,0,0>>) @@ "other" :> Rom(<<0,0,1,1,1>>)
=============================================================================
