----------------------- MODULE MCFilterTransformation -----------------------
(***************************************************************************)
(* Filter (r) => r.host == "a" and r._value != 0 over blocks whose column *)
(* sets differ, as blocks of different series do after a group:           *)
(*   WithHost  [_time, host, _value]      the shape of filter_test.go's    *)
(*   HostLast  [_time, _value, host]      tagged blocks                   *)
(*   NoHost    [_time, region, _value]                                     *)
(*   Storage   [_time, _value]            the storage block (part_000:151)*)
(*   Grouped   [_time, _value, region, host] region common, as t1 of the  *)
(*             test's tagged block                                        *)
(* with one row each and every choice of its tag and value texts.         *)
(***************************************************************************)
EXTENDS FilterTransformation

Column(l, t, c) == [label |-> l, type |-> t, common |-> c]
Time   == Column("_time", "time", FALSE)
Value  == Column("_value", "float", FALSE)
Tag(l) == Column(l, "string", FALSE)
Common(l) == Column(l, "string", TRUE)

Shapes ==
  {<<Time, Tag("host"), Value>>, <<Time, Value, Tag("host")>>,
   <<Time, Tag("region"), Value>>, <<Time, Value>>,
   <<Time, Value, Common("region"), Tag("host")>>}

\* texts of each column type
Texts == [time |-> {"t"}, string |-> {"a", "b"}, float |-> {"0", "1"}]

RowsOf(cols) ==
  {r \in [DOMAIN cols -> UNION {Texts[t] : t \in DOMAIN Texts}] :
     \A j \in DOMAIN cols : r[j] \in Texts[cols[j].type]}

MCBlocks == UNION {{[cols |-> c, rows |-> <<r>>] : r \in RowsOf(c)} : c \in Shapes}

MCInputs == SeqOf(MCBlocks, 2)

MCPass(s) == s["host"] = "a" /\ s["_value"] # "0"
====
