------------------------------ MODULE SmfcTexts ------------------------------
(***************************************************************************)
(* The texts that smfc prints and leaves on disk: Smfc says when, and      *)
(* Generators what.                                                        *)
(***************************************************************************)
EXTENDS Smfc, Generators

(* What flatbuffers hands to smfc for a file of one namespace: sequences,  *)
(* and no two services of one name.                                        *)
ASSUME SchemasAssumption ==
  \A c \in Schemas :
    /\ c.package \in Seq(Range(c.package)) /\ c.services \in Seq(Range(c.services))
    /\ \A s \in Range(c.services) : s.generated \in BOOLEAN /\ s.methods \in Seq(Range(s.methods))
    /\ \A i, j \in DOMAIN c.services :
         /\ ~c.services[i].generated /\ ~c.services[j].generated
         /\ c.services[i].name = c.services[j].name
         => i = j

(* The ids of the methods of a service differ.  smfc takes them from crc32 *)
(* and does not look for collisions.                                       *)
DistinctIds ==
  \A c \in Schemas : \A s \in Range(Own(c)) :
    \A m, k \in Range(s.methods) : MethodId(m) = MethodId(k) => m = k

(* A text is named by the generator and the schema it comes from; its      *)
(* tokens are Tokens(t).                                                   *)
Texts == Languages \X Schemas
Tokens(t) == Generate(t[1], t[2])

(* What smfc prints fits together across the functions that print it.  The *)
(* indentation is never negative (smf_printer::outdent asserts it), is the *)
(* one Python needs and ends at zero; brackets close in the order they     *)
(* were opened; each method, class and Python module that a file refers to *)
(* is declared, defined or imported there, and defined once; and the name  *)
(* printed for a flatbuffers type is one that type has there.  The three   *)
(* exceptions: two services of a C++ header have their operator<< printed  *)
(* again and again by the nested loops of                                  *)
(* generate_header_prologue_forward_decl_external; a Go file names a type  *)
(* of another namespace as if it were of its own (smf_method::type); a     *)
(* Python client reads every result with GetRootAsPutResponse, which no    *)
(* other type has (print_client_method).                                   *)
Consistent ==
  {<<u[1], u[2]>> : u \in {t \in Texts :
     /\ WellNested(Tokens(t)) /\ Closed(Tokens(t))
     /\ \A x \in Repeated(Tokens(t)) :
          x[1] = <<"ostream">> /\ t[1] = "cpp" /\ Len(Own(t[2])) > 1
     /\ \A y \in Misnamed(t[1], t[2]) :
          \/ t[1] = "go" /\ y.ns # t[2].package
          \/ t[1] = "python" /\ y.name # "PutResponse"}}
WellFormed == text # <<>> => text \in Consistent

(* A stub generated by any run, in any language, sends an id that reaches  *)
(* the handler of its own method in the server code generated by any run,  *)
(* of the same or of another version of the schema, in which that method   *)
(* is still served: ids come from signatures, not from positions.          *)
Compatible ==
  {<<c[1], c[2]>> : c \in {u \in Texts \X Texts : StubsReach(Tokens(u[1]), Tokens(u[2]))}}
WireCompatible ==
  \A p, q \in {r \in DOMAIN files : files[r] # Torn} : <<files[p], files[q]>> \in Compatible

=============================================================================
