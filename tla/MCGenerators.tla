---------------------------- MODULE MCGenerators ----------------------------
(***************************************************************************)
(* The two generators, of which a run of the command line is one.  Both    *)
(* name with a generator of unique names of their own; the one that is not *)
(* run rests where it started.                                             *)
(*                                                                         *)
(* OData: entities Book and BOOK, and one called Book_1; complex types     *)
(* that have the names of entities and of their interfaces; functions that *)
(* differ from an entity in their case, one whose name is a keyword, and   *)
(* one that has the name which the prefix makes of it.                     *)
(*                                                                         *)
(* OpenAPI: all lists of up to four of seven names: three that are         *)
(* formatted to getBook, getBook1 and getBook2 themselves, a reserved word *)
(* and a name that becomes it.                                             *)
(***************************************************************************)
EXTENDS ServiceNames, TLC

CONSTANTS Lists, Format, OpenApiReservedWords

VARIABLES generator  \* the generator that runs: "odata" or "openapi"

VARIABLES originalNames, strict, pending, openApiUsed, result, openApiStatus

openApiVars == <<originalNames, strict, pending, openApiUsed, result, openApiStatus>>

W(word, spelling) == <<word, spelling>>
I(i) == <<Index, i>>

Book == <<W("book", 1)>>
BOOK == <<W("book", 2)>>
BookType == <<W("book", 1), W("type", 1)>>
book == <<W("book", 0)>>
Delete == <<W("delete", 0)>>
FDelete == <<W("f", 0), W("delete", 1)>>
Time == <<W("time", 1)>>

MCClasses == {Book, BOOK, Book \o <<I(1)>>, Time}
MCTypes == {Book, BookType}
MCOperations == {book, book \o <<I(1)>>, Delete, FDelete}
MCReserved == {Time}
MCKeywords == {Delete}

getBook == <<W("getBook", 0)>>
GetBook == <<W("getBook", 1)>>
get_book == <<W("getBook", 2)>>
getBook1 == getBook \o <<I(1)>>
getBook2 == getBook \o <<I(2)>>
body == <<W("body", 0)>>
Body == <<W("body", 1)>>

MCFormat == getBook :> getBook @@ GetBook :> getBook @@ get_book :> getBook
            @@ getBook1 :> getBook1 @@ getBook2 :> getBook2 @@ body :> body @@ Body :> body

MCLists == UNION { [1..n -> DOMAIN MCFormat] : n \in 0..4 }

MCOpenApiReserved == {body}

OpenApi == INSTANCE OpenApiNames WITH
  names <- originalNames, used <- openApiUsed, status <- openApiStatus,
  ReservedWords <- OpenApiReservedWords

ASSUME OpenApiConstants == OpenApi!NamesAssumption

MCInit ==
  /\ generator \in {"odata", "openapi"}
  /\ Init /\ OpenApi!Init
  /\ generator = "odata" => originalNames = <<>> /\ ~strict

MCNext ==
  /\ UNCHANGED generator
  /\ \/ generator = "odata" /\ Next /\ UNCHANGED openApiVars
     \/ generator = "openapi" /\ OpenApi!Next /\ UNCHANGED vars

MCSpec == MCInit /\ [][MCNext]_<<generator, vars, openApiVars>>

\* The data of both generators have their types.
AllTypes == TypeOK /\ OpenApi!TypeOK

\* OpenAPI: no two of the resulting names are equal or reserved.
ResultIsUnique == OpenApi!ResultIsUnique

\* OpenAPI: names that need no change keep theirs.
ProperNamesStay == OpenApi!ProperNamesStay
=============================================================================
