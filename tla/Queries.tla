------------------------------- MODULE Queries -------------------------------
(***************************************************************************)
(* The queries of sql/ that look for contradictions, and those that close  *)
(* gaps, as sets of rows over the triples of Store.  A row is the pair of  *)
(* facts that contradict each other, or what is to be written; provenance  *)
(* columns are left out, what is asked of them is Checked.                 *)
(***************************************************************************)
EXTENDS Store

VendorsOf(f) == {v \in Vendors : <<f, v>> \in symbolOf}
Issued(f)    == {i \in Issuers : <<f, i>> \in issuedBy}
Classed(x)   == {c \in Codes : <<x, c>> \in classifiedAs}
Parents(f)   == {g \in Figis : <<f, g>> \in componentOf}

\* componentOf+ : links go up at most two levels (LevelsOK).
Above(f)     == Parents(f) \cup UNION {Parents(g) : g \in Parents(f)}
\* componentOf*
SelfAbove(f) == {f} \cup Above(f)

IsShareClass(s)  == <<s, "ShareClassGlobalIdentifier">> \in type
SameVendor(i, j) == VendorOf[i] = VendorOf[j]
\* Both sides of a row of facts lack the object of the other.
Apart(a, b, facts) == <<b[1], a[2]>> \notin facts /\ <<a[1], b[2]>> \notin facts

(* OPTIONAL { ?prov rdf:subject s ; rdf:object o }                         *)
(* FILTER NOT EXISTS { ?prov prov:wasInvalidatedBy ?inv }                  *)
(* When the fact has no record, ?prov stays free in the filter, which then *)
(* asks whether anything at all was invalidated.                           *)
Records(fact) == {p \in Statements : <<p, fact[1], fact[2]>> \in prov}
Checked(fact) == \/ Records(fact) \ invalidated # {}
                 \/ Records(fact) = {} /\ invalidated = {}

-----------------------------------------------------------------------------
\* Variant of transclo_cfi: the record is looked for at the component.
transclo_cfi_own ==
  {r \in Figis \X Cfi : \E g \in Parents(r[1]) : r[2] \in Classed(g) /\ Checked(r)}
\* rows <<figi, cfi>>
transclo_cfi ==
  {r \in Figis \X Cfi : \E g \in Parents(r[1]) : r[2] \in Classed(g) /\ Checked(<<g, r[2]>>)}

\* rows <<figi, cfi>>, <<cfigi, ccfi>>
inconsistent_cfi ==
  {r \in classifiedAs \X classifiedAs :
     /\ r[2][1] \in Parents(r[1][1])
     /\ r[1][2] \in Cfi /\ r[2][2] \in Cfi
     /\ Apart(r[1], r[2], classifiedAs)
     /\ Checked(r[1]) /\ Checked(r[2])}

-----------------------------------------------------------------------------
\* Variant of transclo_gics: the record is looked for at the issuer.
transclo_gics_issr ==
  {r \in classifiedAs \X Issuers :
     /\ r[2] \in Issued(r[1][1]) /\ r[1][2] \in SubIndustries
     /\ VendorOf[r[2]] \in VendorsOf(r[1][1])
     /\ Checked(<<r[2], r[1][2]>>)}
\* rows <<figi, gics>>, issr
transclo_gics ==
  {r \in classifiedAs \X Issuers :
     /\ r[2] \in Issued(r[1][1]) /\ r[1][2] \in SubIndustries
     /\ VendorOf[r[2]] \in VendorsOf(r[1][1])
     /\ Checked(r[1])}

\* rows <<figi, gics>>, <<issr, igics>>
inconsistent_gics_02 ==
  {r \in (Figis \X SubIndustries) \X classifiedAs :
     /\ \E f \in SelfAbove(r[1][1]) : r[2][1] \in Issued(f)
     /\ \E f \in SelfAbove(r[1][1]) : r[1][2] \in Classed(f)
     /\ r[2][2] \in SubIndustries
     /\ Apart(r[1], r[2], classifiedAs)
     /\ Checked(r[1]) /\ Checked(r[2])}

\* rows <<figi1, gics1>>, <<figi2, gics2>>
inconsistent_gics_04 ==
  {r \in classifiedAs \X classifiedAs :
     /\ Issued(r[1][1]) \cap Issued(r[2][1]) # {}
     /\ r[1][2] \in SubIndustries /\ r[2][2] \in SubIndustries
     /\ Apart(r[1], r[2], classifiedAs)
     /\ Checked(r[1]) /\ Checked(r[2])}

-----------------------------------------------------------------------------
\* rows <<figi, issr>>, sfigi
transclo_issr ==
  {r \in issuedBy \X Figis : r[2] \in Above(r[1][1]) /\ IsShareClass(r[2])}

\* rows <<figi, issr>>, <<sfigi, sissr>>
inconsistent_issr_01 ==
  {r \in issuedBy \X issuedBy :
     /\ r[2][1] \in Above(r[1][1])
     /\ VendorsOf(r[1][1]) \cap VendorsOf(r[2][1]) # {}
     /\ SameVendor(r[1][2], r[2][2])
     /\ Apart(r[1], r[2], issuedBy)}

\* rows <<figi1, issr1>>, <<figi2, issr2>>
inconsistent_issr_02 ==
  {r \in issuedBy \X issuedBy :
     /\ Above(r[1][1]) \cap Above(r[2][1]) # {}
     /\ SameVendor(r[1][2], r[2][2])
     /\ Apart(r[1], r[2], issuedBy)}

\* rows <<figi, issr1>>, <<figi, issr2>>
inconsistent_issr_03 ==
  {r \in issuedBy \X issuedBy :
     r[1][1] = r[2][1] /\ r[1][2] # r[2][2] /\ SameVendor(r[1][2], r[2][2])}

-----------------------------------------------------------------------------
\* FIGIs of two composites, and composites of two share classes.
OfTwo(level) == {f \in Figis : /\ <<f, level>> \in type
                               /\ \E g, h \in Parents(f) : g # h}
inconsistent_composite == OfTwo("GlobalIdentifier") \cup OfTwo("CompositeGlobalIdentifier")
==============================================================================
