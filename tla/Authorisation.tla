--------------------------- MODULE Authorisation ----------------------------
(***************************************************************************)
(* How infra/auth reads the answers of the authentication service: access  *)
(* strings, the scope that the active licences of a user open and the      *)
(* limit of a product.                                                     *)
(*                                                                         *)
(* A class name is a record: its letters in one case (base, "" for an      *)
(* empty name), whether it is written in capitals and whether blanks       *)
(* surround it.                                                            *)
(***************************************************************************)
EXTENDS Integers, Sequences, SequencesExt

Modes == [x |-> 8, r |-> 4, w |-> 2, d |-> 1]

HasMode(grants, grant) == (grants \div grant) % 2 = 1

SetMode(grants, grant) == IF HasMode(grants, grant) THEN grants ELSE grants + grant

\* Mutant of addMode: a second occurrence of a letter changes nothing.
addModeOnce(grants, c) == SetMode(grants, Modes[c])

\* One letter: its mode, or, when it has been read before, the right to pass it on
addMode(grants, c) ==
    IF HasMode(grants, Modes[c]) THEN SetMode(grants, 16 * Modes[c])
    ELSE SetMode(grants, Modes[c])

\* parseAccess: the bits of an access string; 0 with an unknown letter
parseAccess(chars) ==
    IF \E i \in DOMAIN chars : chars[i] \notin DOMAIN Modes THEN 0
    ELSE FoldLeft(addMode, 0, chars)

\* objClass: the canonical name, without blanks and in small letters
objClass(name) == name.base

\* strings.EqualFold of a class of the user and a canonical name: blanks count.
caseIgnoreMatch(class, canonical) == ~ class.padded /\ class.base = canonical

\* hasScope and append: the canonical name, if it is not there yet; an empty one is
\* skipped.
addClass(scope, class) ==
    IF objClass(class) = "" \/ Contains(scope, objClass(class)) THEN scope
    ELSE Append(scope, objClass(class))

addScope(scope, setof) == FoldLeft(addClass, scope, setof)

\* A product counts if it has a scope and is within its validity boundaries.
IsActive(prod, now) ==
    /\ prod.scope # <<>>
    /\ ~ (0 < prod.expires /\ prod.expires <= now)
    /\ ~ (0 < prod.issued /\ now < prod.issued)

\* A product adds its scope and itself, if it is active.
addProduct(got, prod, now) ==
    IF IsActive(prod, now)
    THEN [valid |-> Append(got.valid, prod.prod), scope |-> addScope(got.scope, prod.scope)]
    ELSE got

\* Has the user a grant for the class?
Granted(classes, class) == \E e \in DOMAIN classes : caseIgnoreMatch(classes[e], class)

\* Mutant of dropStep: the loop variable is not stepped back after a removal.
dropStepSkipping(loop, classes) ==
    IF loop.i > Len(loop.scope) THEN loop
    ELSE IF Granted(classes, loop.scope[loop.i]) THEN [loop EXCEPT !.i = @ + 1]
         ELSE [i |-> loop.i + 1, scope |-> RemoveAt(loop.scope, loop.i)]

\* One turn of the loop that removes, in place, the classes the user has no grant for:
\* i, the place it looks at, moves on or everything behind it moves up.
dropStep(loop, classes) ==
    IF loop.i > Len(loop.scope) THEN loop
    ELSE IF Granted(classes, loop.scope[loop.i]) THEN [loop EXCEPT !.i = @ + 1]
         ELSE [loop EXCEPT !.scope = RemoveAt(@, loop.i)]

\* The loop: every turn deals with one class, so there are as many as classes.
dropForeign(scope, classes) ==
    FoldLeft(LAMBDA loop, class : dropStep(loop, classes), [i |-> 1, scope |-> scope], scope).scope

\* licenseActiveScope: the valid licences and the scope they open; neither, if the
\* active products open nothing.
licenseActiveScope(license, classes, now) ==
    LET got == FoldLeft(LAMBDA acc, prod : addProduct(acc, prod, now),
                        [valid |-> <<>>, scope |-> <<>>], license)
    IN  IF got.scope = <<>> THEN [valid |-> <<>>, scope |-> <<>>]
        ELSE [valid |-> got.valid, scope |-> dropForeign(got.scope, classes)]

\* Mutant of usable: only the first error of a grant is looked at.
usableFirst(grant) == grant.errors = <<>> \/ Head(grant.errors) = "product exhausted"

\* A grant without errors, or with none but that it is used up
usable(grant) == grant.errors = <<>> \/ grant.errors = <<"product exhausted">>

\* One grant: its remainder, if it is one of the product's and the largest so far
largerLimit(limitMax, grant, product) ==
    IF grant.product = product /\ usable(grant) /\ limitMax < grant.remain
    THEN grant.remain
    ELSE limitMax

\* ProductLimit: the largest remainder; 0 stands for its error.  Nothing in the program
\* calls it yet.
ProductLimit(license, product) ==
    FoldLeft(LAMBDA limitMax, grant : largerLimit(limitMax, grant, product), 0, license)
=============================================================================
