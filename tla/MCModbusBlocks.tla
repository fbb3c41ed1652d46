---------------------------- MODULE MCModbusBlocks ----------------------------
(* Devices with up to three tags: addresses, lengths and limits small      *)
(* enough that tags overlap, nest, touch, leave gaps and exceed the limit. *)
(* Lists of three are taken by address; of two, in either order, and also  *)
(* with one name for both, which two tag groups make possible.             *)
EXTENDS ModbusBlocks

MCLimit == [f \in Functions |-> IF f = "coil" THEN 5 ELSE 4]

Shape == [function : {"holding_register"}, unit : {0}, address : 0 .. 5, count : {1, 2, 5}]
         \cup [function : {"coil"}, unit : {0, 2}, address : {1}, count : {1}]

WithNames(shapes, names) == [i \in DOMAIN shapes |-> ("name" :> names[i]) @@ shapes[i]]

MCTagLists ==
  {WithNames(<<s>>, <<"a">>) : s \in Shape}
  \cup {WithNames(<<s, t>>, <<"a", n>>) : s, t \in Shape, n \in {"a", "b"}}
  \cup {WithNames(ss, <<"a", "b", "c">>) :
          ss \in {ts \in {<<s, t, u>> : s, t, u \in Shape} :
                   ts[1].address <= ts[2].address /\ ts[2].address <= ts[3].address}}
==============================================================================
