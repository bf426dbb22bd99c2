------------------------------- MODULE MCSmfc -------------------------------
(* Instances of Smfc for TLC.                                              *)
EXTENDS SmfcTexts

Put == <<"put", TRUE, FALSE>>
Get == <<"get", FALSE, FALSE>>
Type(ns, n) == [ns |-> ns, name |-> n]
Method(n, in, out) == [name |-> n, in |-> in, out |-> out]
Service(n, generated, methods) == [name |-> n, generated |-> generated, methods |-> methods]

Kv == <<"kv">>
PutM == Method(Put, Type(Kv, "Request"), Type(Kv, "PutResponse"))
GetM == Method(Get, Type(Kv, "Request"), Type(<<"base">>, "Response"))
GetM2 == Method(Get, Type(Kv, "Request"), Type(Kv, "Response"))
Storage(methods) == Service(<<"storage", TRUE, TRUE>>, FALSE, methods)
Health == Service(<<"health", FALSE, FALSE>>, FALSE, <<GetM>>)
Included == Service(<<"base", TRUE, FALSE>>, TRUE, <<PutM>>)

(* One service; its methods swapped and one changed, with a second service *)
(* and an included one; no namespace; no service.                          *)
V1 == [package |-> Kv, services |-> <<Storage(<<PutM, GetM>>)>>]
V2 == [package |-> Kv, services |-> <<Included, Storage(<<GetM2, PutM>>), Health>>]
Global == [package |-> <<>>, services |-> <<Storage(<<PutM>>)>>]
NoService == [package |-> <<"a", "b">>, services |-> <<>>]

MCSchemas == {V1, V2, Global, NoService}

Cmd(f, l, o) == [filename |-> f, langs |-> l, out |-> o]
MCCommands ==
  {Cmd("", <<"cpp">>, "cwd"), Cmd("f", <<"ruby">>, "cwd"), Cmd("f", <<"cpp">>, ""),
   Cmd("f", <<"cpp">>, "missing"), Cmd("f", <<"cpp">>, "file"),
   Cmd("f", <<"go", "ruby", "cpp">>, "cwd"), Cmd("f", <<"cpp", "python">>, "out")}

MCOldDirs == {{}, {<<"out", Kv>>}}

(* crc32 of the names and signatures in use: distinct words.               *)
Key(m) == <<m.name, CppType(m.in), CppType(m.out)>>
Keys == <<<<Health.name>>, <<Included.name>>, <<Storage(<<>>).name>>, Key(PutM), Key(GetM), Key(GetM2)>>
MCCrc(x) == {i \in DOMAIN Keys : Keys[i] = x}
ASSUME IdsAssumption == DistinctIds

=============================================================================
