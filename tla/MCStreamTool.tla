---------------------------- MODULE MCStreamTool ----------------------------
(***************************************************************************)
(* StreamTool with words of two bytes, chunks of two words and sizes below *)
(* 32.  Limits end inside a chunk, at its end and inside a word; two of    *)
(* them wrap, and one of those to 0.                                       *)
(***************************************************************************)
EXTENDS StreamTool

Of(n, f) == [number |-> n, factor |-> f]
MCSizes == "0" :> Of(0, 1) @@ "1" :> Of(1, 1) @@ "4" :> Of(4, 1) @@ "7" :> Of(7, 1) @@
           "5K" :> Of(5, 2) @@ "17K" :> Of(17, 2) @@ "16K" :> Of(16, 2)

MCStreamLines ==
  {<<"--bytes", size>> : size \in DOMAIN MCSizes \cup {"five", "--info"}}
    \cup {<<>>, <<"--bytes">>, <<"--info", "--backend", "avx2">>, <<"--backend", "neon", "--info">>,
          <<"--bytes", "1", "--format", "float32", "--bytes", "7", "--backend", "scalar">>,
          <<"--backend", "avx2", "--backend", "scalar", "--bytes", "1">>,
          <<"--backend", "scalar", "--seed", "--backend", "--bytes", "1">>,
          <<"--bytes", "4", "--help", "--wrong">>, <<"--seed", "--help", "--bytes", "4">>,
          <<"--bytes", "4", "-h", "--wrong">>, <<"--seed", "-h", "--bytes", "4">>,
          <<"--bytes", "4", "--format", "raw64">>, <<"--bytes", "4", "--battery", "big">>}
MCBatteryLines ==
  {<<>>, <<"--help">>, <<"-h">>, <<"--battery", "big", "--backend", "scalar", "--seed", "7">>,
   <<"--battery", "huge">>, <<"--battery">>, <<"--info">>}
=============================================================================
