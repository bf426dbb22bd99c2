----------------------------- MODULE Generators -----------------------------
(***************************************************************************)
(* What smfc prints (smfc/cpp_generator.cc, go_generator.cc,               *)
(* python_generator.cc over smf_method.h, smf_service.h, smf_printer.h).   *)
(*                                                                         *)
(* A file is a sequence of tokens.  Wording and layout are left out; what  *)
(* stays are the calls of indent() and outdent(), the brackets opened and  *)
(* closed, the symbols declared, defined, imported and used, the names of  *)
(* flatbuffers' types and accessors, and the request ids of dispatch       *)
(* tables and client stubs.  A token carries the method or the type it was *)
(* printed for.  Names of the smf libraries and of the languages' own are  *)
(* wording.                                                                *)
(*                                                                         *)
(* A name is <<word, whether its first letter is upper case, whether       *)
(* another one is>>; a type is [ns, name]; a schema is                     *)
(* [package, services], a service [name, generated, methods], a method     *)
(* [name, in, out].                                                        *)
(***************************************************************************)
EXTENDS Integers, Sequences, FiniteSets, Functions

CONSTANT Crc(_)  \* crc32 of a name or of the parts of a method's signature

(* A 32-bit word is the set of its one bits.                               *)
Xor(a, b) == (a \ b) \cup (b \ a)

(* Texts one after the other, and those printed for the elements of a      *)
(* sequence.                                                               *)
Concat(texts) ==
  LET upTo[i \in 0..Len(texts)] == IF i = 0 THEN <<>> ELSE upTo[i - 1] \o texts[i]
  IN upTo[Len(texts)]
Each(seq, Text(_)) == Concat([i \in 1..Len(seq) |-> Text(seq[i])])

(* Tokens.                                                                 *)
(* A symbol is the sequence of names that leads to it.                     *)
Indent == <<"indent">>
Outdent == <<"outdent">>
Open(b) == <<"open", b>>
Close(b) == <<"close", b>>
Level(n) == <<"level", n>>               \* Python: the text has to be indented n times
Decl(x) == <<"decl", x>>
Def(x) == <<"def", x>>
Import(x) == <<"import", x>>
Use(x) == <<"use", x>>
Ref(x, t) == <<"ref", x, t>>             \* x is printed for what flatbuffers makes of type t
Handle(s, m) == <<"handle", s.name, m>>  \* the next entry of handles_
Case(id, s, i) == <<"case", id, s.name, i>>
GoCase(id, s, m) == <<"gocase", id, s.name, m>>
Stub(id, s, m) == <<"stub", id, s.name, m>>

(* smf_method::type.                                                       *)
CppType(t) == Append(t.ns, t.name)
GoType(t) == <<t.name>>
PythonType(t) == t.ns \o <<t.name, t.name>>

(* smf_service::smf_service and smf_method::smf_method: the ids are made   *)
(* from C++ type names whatever the language.                              *)
ServiceId(s) == Crc(<<s.name>>)
MethodId(m) == Crc(<<m.name, CppType(m.in), CppType(m.out)>>)
RequestIdOf(s, m) == Xor(ServiceId(s), MethodId(m))

(* generator::generator: services of included files are not printed.       *)
Own(schema) == Each(schema.services, LAMBDA s : IF s.generated THEN <<>> ELSE <<s>>)

-----------------------------------------------------------------------------
(* C++.                                                                    *)

(* proper_prefix_token, proper_postfix_token: camel case when the name has *)
(* an upper case letter, else snake case.                                  *)
Affixed(affix, n) ==
  IF n[2] \/ n[3] THEN <<affix, n[1], TRUE, n[3]>> ELSE <<affix, n[1], FALSE, FALSE>>
CppRaw(s, m) == <<s.name, Affixed("raw", m.name)>>
CppClient(s) == Affixed("client", s.name)

print_header_service_ctor_dtor(s) ==
  <<Def(<<s.name, <<"dtor">>>>), Def(<<s.name, <<"ctor">>>>), Open("{{"), Indent>>
  \o Each(s.methods, LAMBDA m :
       <<Open("("), Indent, Open("{"), Indent, Handle(s, m), Use(CppRaw(s, m)),
         Open("("), Open("{"), Indent, Outdent,
         Close("{"), Close("("), Close("{"), Close("("), Outdent, Outdent>>)
  \o <<Outdent, Close("{{")>>

(* Mutant: the cases count the entries of handles_ from one.               *)
HandlesFromOne(s) ==
  <<Def(<<s.name, <<"method_for_request_id">>>>), Open("{"), Indent, Open("{"), Indent>>
  \o [i \in DOMAIN s.methods |-> Case(RequestIdOf(s, s.methods[i]), s, i)]
  \o <<Outdent, Close("{"), Outdent, Close("{")>>

print_header_service_handle_request_id(s) ==
  <<Def(<<s.name, <<"method_for_request_id">>>>), Open("{"), Indent, Open("{"), Indent>>
  \o [i \in DOMAIN s.methods |-> Case(RequestIdOf(s, s.methods[i]), s, i - 1)]
  \o <<Outdent, Close("{"), Outdent, Close("{")>>

print_header_service_handles(s) ==
  <<Def(<<s.name, <<"methods">>>>), Open("{"), Indent, Outdent, Close("{")>>

print_header_service_method(s, m) ==
  <<Ref(CppType(m.out), m.out), Def(<<s.name, m.name>>), Ref(CppType(m.in), m.in),
    Open("{"), Indent, Outdent, Close("{"),
    Def(CppRaw(s, m)), Open("{"), Indent, Use(<<s.name, m.name>>),
    Open("("), Open("{"), Indent, Outdent, Close("{"), Close("("), Outdent, Close("{")>>

print_header_service(s) ==
  <<Def(<<s.name>>), Open("{"), Indent>>
  \o print_header_service_ctor_dtor(s)
  \o Each(<<"service_name", "service_id", "print">>, LAMBDA x :
       <<Def(<<s.name, <<x>>>>), Open("{"), Indent, Outdent, Close("{")>>)
  \o print_header_service_handles(s)
  \o print_header_service_handle_request_id(s)
  \o Each(s.methods, LAMBDA m : print_header_service_method(s, m))
  \o <<Outdent, Close("{")>>

print_header_client_method(s, m) ==
  <<Ref(CppType(m.out), m.out), Def(<<CppClient(s), m.name, <<"typed">>>>),
    Ref(CppType(m.in), m.in), Open("{"),
    Use(<<CppClient(s), m.name, <<"envelope">>>>), Close("{"),
    Def(<<CppClient(s), m.name, <<"envelope">>>>), Open("{"), Indent,
    Stub(RequestIdOf(s, m), s, m), Outdent, Close("{")>>

(* Mutant: the second indentation of the class is not undone.              *)
ClientLeavesIndent(s) ==
  <<Def(<<CppClient(s)>>), Open("{"), Indent, Indent>>
  \o <<Def(<<CppClient(s), <<"name">>>>), Open("{"), Indent, Outdent, Close("{")>>
  \o Each(s.methods, LAMBDA m : print_header_client_method(s, m))
  \o <<Outdent, Close("{")>>

print_header_client(s) ==
  <<Def(<<CppClient(s)>>), Open("{"), Indent, Indent>>
  \o <<Def(<<CppClient(s), <<"name">>>>), Open("{"), Indent, Outdent, Close("{")>>
  \o Each(s.methods, LAMBDA m : print_header_client_method(s, m))
  \o <<Outdent, Close("{"), Outdent>>

print_std_ostream_services(s) ==
  <<Open("{"), Indent, Def(<<<<"ostream">>, s.name>>), Use(<<s.name>>), Open("{"), Indent,
    Outdent, Close("{"), Outdent, Close("{")>>

cpp_prologue == <<Open("#ifndef")>>
cpp_epilogue == <<Close("#ifndef")>>
prologue_namespace(schema) == Each(schema.package, LAMBDA p : <<Open("{")>>)
epilogue_namespace(schema) ==
  Each(schema.package, LAMBDA p : <<Close("{")>>)
forward_decl(schema) == Each(Own(schema), LAMBDA s : <<Decl(<<s.name>>), Decl(<<CppClient(s)>>)>>)

(* The two loops are nested: k services print k * k operators.             *)
forward_decl_external(schema) ==
  Each(Own(schema), LAMBDA outer : Each(Own(schema), print_std_ostream_services))

generate_header_services(schema) ==
  Each(Own(schema), LAMBDA s : print_header_service(s) \o print_header_client(s))

CppHeader(schema) ==
  cpp_prologue
  \o prologue_namespace(schema) \o forward_decl(schema) \o epilogue_namespace(schema)
  \o forward_decl_external(schema)
  \o prologue_namespace(schema) \o generate_header_services(schema) \o epilogue_namespace(schema)
  \o cpp_epilogue

-----------------------------------------------------------------------------
(* Go.                                                                     *)

go_public_name(n) == <<n[1], TRUE, n[3]>>
GoInterface(s) == <<go_public_name(s.name)>>
GoService(s) == <<<<"Service">>, go_public_name(s.name)>>
GoClient(s) == <<<<"Client">>, go_public_name(s.name)>>

GoRaw(type, m) ==
  type \o <<<<"Raw">>, go_public_name(m.name)>>

GoMethod(type, m) == Append(type, go_public_name(m.name))
GoRoot(t) == <<"GetRootAs", t.name>>
GoFunc(x) == <<Def(x), Open("{"), Indent, Outdent, Close("{")>>

print_server_method(s, m) ==
  <<Def(GoRaw(GoService(s), m)), Open("{"), Indent,
    Use(GoMethod(GoInterface(s), m)), Ref(GoRoot(m.in), m.in), Outdent, Close("{")>>

print_server_jump_table(s) ==
  <<Def(Append(GoService(s), <<"MethodHandle">>)), Open("{"), Indent, Open("{")>>
  \o Each(s.methods, LAMBDA m :
       <<GoCase(RequestIdOf(s, m), s, m), Indent, Use(GoRaw(GoService(s), m)), Outdent>>)
  \o <<Indent, Outdent, Close("{"), Outdent, Close("{")>>

print_server(s) ==
  <<Def(GoInterface(s)), Open("{"), Indent>>
  \o Each(s.methods, LAMBDA m :
       <<Def(GoMethod(GoInterface(s), m)), Ref(GoType(m.in), m.in)>>)
  \o <<Outdent, Close("{"), Def(GoService(s)), Open("{"), Indent, Use(GoInterface(s)),
       Outdent, Close("{")>>
  \o Each(<<"New", "ServiceName", "ServiceID">>, LAMBDA x : GoFunc(Append(GoService(s), <<x>>)))
  \o print_server_jump_table(s)
  \o Each(s.methods, LAMBDA m : print_server_method(s, m))

go_print_client_method(s, m) ==
  <<Def(GoMethod(GoClient(s), m)), Ref(GoType(m.out), m.out), Open("{"), Indent,
    Use(GoRaw(GoClient(s), m)), Open("{"), Indent, Outdent, Close("{"),
    Ref(GoRoot(m.out), m.out), Outdent, Close("{"),
    Def(GoRaw(GoClient(s), m)), Open("{"), Indent,
    Stub(RequestIdOf(s, m), s, m), Outdent, Close("{")>>

go_print_client(s) ==
  GoFunc(GoClient(s)) \o GoFunc(Append(GoClient(s), <<"New">>))
  \o Each(s.methods, LAMBDA m : go_print_client_method(s, m))

go_prologue_includes == <<Open("import"), Indent, Outdent, Close("import")>>

GoFile(schema) ==
  go_prologue_includes \o Each(Own(schema), print_server) \o Each(Own(schema), go_print_client)

-----------------------------------------------------------------------------
(* Python.                                                                 *)

PythonModule(t) ==
  LET path == PythonType(t) IN <<<<"module">>, SubSeq(path, 1, Len(path) - 1)>>

PythonRoot(t, name) == PythonType(t) \o <<"GetRootAs", name>>

(* The accessor is the one of a type PutResponse, whatever the type is.    *)
python_print_client_method(s, m) ==
  <<Level(1), Def(GoMethod(GoClient(s), m)), Indent, Level(2),
    Stub(RequestIdOf(s, m), s, m), Use(PythonModule(m.out)),
    Ref(PythonRoot(m.out, "PutResponse"), m.out), Outdent>>

python_print_client(s) ==
  <<Level(0), Def(GoClient(s)), Indent, Level(1), Def(Append(GoClient(s), <<"init">>)), Indent, Level(2),
    Outdent, Outdent>>
  \o Each(s.methods, LAMBDA m : <<Indent>> \o python_print_client_method(s, m) \o <<Outdent>>)

(* The modules of the result types, each once: imports is a std::set.      *)
python_includes(schema) ==
  LET methods == Each(Own(schema), LAMBDA s : s.methods)
      imports == [i \in 1..Len(methods) |-> PythonModule(methods[i].out)]
  IN Concat([i \in 1..Len(methods) |->
               IF \E j \in 1..(i - 1) : imports[j] = imports[i] THEN <<>>
               ELSE <<Level(0), Import(imports[i])>>])

PythonFile(schema) == python_includes(schema) \o Each(Own(schema), python_print_client)

Generate(lang, schema) ==
  CASE lang = "cpp" -> CppHeader(schema)
    [] lang = "go" -> GoFile(schema)
    [] lang = "python" -> PythonFile(schema)

-----------------------------------------------------------------------------
(* What a file needs in order to be compiled.                              *)

(* smf_printer's indentation is never negative, is the one Python needs    *)
(* and ends at zero; each bracket closes the last one left open.           *)
Up(file, i, kind) == Cardinality({k \in 1..i : file[k][1] = kind})

WellNested(file) ==
  LET n == Len(file)
      depth == [i \in 0..n |-> Up(file, i, "indent") - Up(file, i, "outdent")]
      nesting == [i \in 0..n |-> Up(file, i, "open") - Up(file, i, "close")]
  IN /\ depth[n] = 0 /\ nesting[n] = 0
     /\ \A i \in 1..n : depth[i] >= 0 /\ (file[i][1] = "level" => depth[i] = file[i][2])
     /\ \A j \in {k \in 1..n : file[k][1] = "close"} :
          \E i \in 1..(j - 1) :
            /\ file[i] = Open(file[j][2]) /\ nesting[i] = nesting[j] + 1
            /\ \A k \in i..(j - 1) : nesting[k] >= nesting[i]

Symbols(file, kinds) == {t[2] : t \in {u \in Range(file) : u[1] \in kinds}}

Closed(file) == Symbols(file, {"use"}) \subseteq Symbols(file, {"def", "decl", "import"})

(* The names that flatbuffers' code for type t has in a file of smfc: a    *)
(* C++ header includes it, a Go file is in the package of its namespace    *)
(* and imports no other, a Python file imports its module.                 *)
FlatNames(lang, schema, t) ==
  CASE lang = "cpp" -> {CppType(t)}
    [] lang = "go" -> IF t.ns = schema.package THEN {GoType(t), GoRoot(t)} ELSE {}
    [] lang = "python" -> {PythonRoot(t, t.name)}

Misnamed(lang, schema) ==
  {t[3] : t \in {u \in Range(Generate(lang, schema)) :
                   u[1] = "ref" /\ u[2] \notin FlatNames(lang, schema, u[3])}}

Repeated(file) ==
  {x \in Symbols(file, {"def"}) : Len(SelectSeq(file, LAMBDA t : t = Def(x))) > 1}

(* The methods of a service for which a server's file has a handler, and   *)
(* those a request id reaches: in C++ through the case and the entry of    *)
(* handles_ at its index, the one after so many others of the service.     *)
IsEntry(t, s) == t[1] = "handle" /\ t[2] = s

Served(file, s) ==
  {t[3] : t \in {u \in Range(file) : IsEntry(u, s)}}
  \cup {t[4] : t \in {u \in Range(file) : u[1] = "gocase" /\ u[3] = s}}

Before(file, s, i) == Cardinality({k \in 1..(i - 1) : IsEntry(file[k], s)})

EntryAt(file, s, n) ==
  {file[i][3] : i \in {k \in 1..Len(file) : IsEntry(file[k], s) /\ Before(file, s, k) = n}}

Reached(file, s, id) ==
  {t[4] : t \in {u \in Range(file) : u[1] = "gocase" /\ u[2] = id /\ u[3] = s}}
  \cup UNION {EntryAt(file, s, t[4]) :
                t \in {u \in Range(file) : u[1] = "case" /\ u[2] = id /\ u[3] = s}}

StubsReach(client, server) ==
  \A t \in {u \in Range(client) : u[1] = "stub"} :
    t[4] \in Served(server, t[3]) => Reached(server, t[3], t[2]) = {t[4]}

=============================================================================
