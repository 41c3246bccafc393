-------------------------- MODULE MCCatalogServer --------------------------
(***************************************************************************)
(* Instances of CatalogServer.                                             *)
(***************************************************************************)
EXTENDS CatalogServer

CONSTANTS first, second, link, english, german, en, de

MCFiles == {first, second}
MCAliases == {link}
MCContents == {english, german}
MCLocales == {en, de}
MCSourceLanguage == [c \in Contents |-> IF c = german THEN de ELSE en]
=============================================================================
