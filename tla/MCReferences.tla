---------------------------- MODULE MCReferences ----------------------------
(***************************************************************************)
(* All references of all custom maps, with names of every shape: in Common,*)
(* in a folder of Common or of an iApp, already in Shared, in a tenant and *)
(* in an application of it; a certificate file whose name the two ways of  *)
(* shortening it agree on, and one they do not.                            *)
(***************************************************************************)
EXTENDS References, CustomMaps

MCNames == {"o", "a.crt", "a-b.crt"}
MCFolders == {<<"Common">>, <<"Common", "F">>, <<"Common", "x.app">>, <<"Common", "Shared">>,
              <<"T">>, <<"T", "A">>}
MCDefaults == {DefaultCert, TrustedBundle, BigipMonitor}
MCWords == {<<"o">>}
MCSingles == {f \o <<n>> : f \in MCFolders, n \in MCNames} \cup MCDefaults
             \cup {None, <<"T", "default.crt">>, <<"T", "A">>, <<"T", "Common">>, <<"Common", "Shared">>}
MCElements == {f \o <<"o">> : f \in MCFolders \ {<<"Common", "x.app">>}}
              \cup {BigipMonitor, Plain}
MCLists == {<<p>> : p \in MCElements} \cup {<<p, q>> : p \in MCElements, q \in MCElements}
MCHomes == {<<"Common", "Shared">>, <<"T", "Shared">>, <<"T", "A">>}
MCIAppFolders == {"x.app"}

(* loadCertsAndKeys puts '_' for '-' and drops the extension.              *)
MCStored == [n \in MCNames \cup {"none", "bigip", "A", "Common", "Shared", "default.crt", "ca-bundle.crt"} |->
    CASE n = "a.crt" -> "a" [] n = "a-b.crt" -> "a_b" [] n = "default.crt" -> "default"
      [] n = "ca-bundle.crt" -> "ca_bundle" [] OTHER -> n]
MCBare == [n \in DOMAIN MCStored |->
    CASE n = "a.crt" -> "a" [] n = "a-b.crt" -> "a-b" [] n = "default.crt" -> "default"
      [] n = "ca-bundle.crt" -> "ca-bundle" [] OTHER -> n]
=============================================================================
