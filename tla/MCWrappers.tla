----------------------------- MODULE MCWrappers -----------------------------
(* Wrappers with every codec of the registry once, and with the levels    *)
(* and parameters that choose between formats.                                *)
EXTENDS Wrappers

Of(id, levs, prms) == [id : {id}, lev : levs, prm : prms]
Pairs(letters) == {<<>>} \cup {<<a>> : a \in letters} \cup {<<a, b>> : a, b \in letters}

MCCalls ==
  [id : Plugs \ {"BPC", "FIRETRAIL"}, lev : {1}, prm : {<<>>}]
  \cup Of("RLES", {0, 3, 8, 16}, {<<>>}) \cup Of("HRLE", {8, 24, 64}, {<<>>})
  \cup Of("HRLEMMTF", {128}, {<<>>})
  \cup Of("TURBORC", {7, 8, 13, 90, 100}, Pairs({"s", "S"}))
  \cup UNION {Of(id, {1}, Pairs({"F", "s"})) : id \in {"LZ4", "CLICKHOUSE"}}
  \cup Of("LZ4ULTRA", {9}, Pairs({"z", "Z", "r", "F"})) \cup Of("SMALLZ4", {9}, Pairs({"z", "Z"}))
  \cup UNION {Of(id, {1}, Pairs({"d", "g", "x"})) : id \in {"LIBDEFLATE", "LIBSLZ"}}
  \cup Of("LZSA", {9}, Pairs({"r", "f1", "f2", "c"}) \cup {<<"r", "f1", "f2">>, <<"f2", "f1", "r">>}) \cup Of("ZSTD", {1}, Pairs({"D", "t"}))
  \cup Of("IC", {3}, Pairs({"u1", "u2", "u3", "z"}))
  \cup Of("OPENZL_TP", {2, 8}, {<<>>})
=============================================================================
