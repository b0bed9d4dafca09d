------------------------------- MODULE MCUsage -------------------------------
(* Two owners, one of them spelled in two ways, and a few bills around two    *)
(* thresholds.                                                                *)
EXTENDS Usage, TLC

MCFolded == "Acme" :> "acme" @@ "ACME" :> "acme" @@ "other" :> "other"

MCRow(sku, gross, discount) ==
  [sku |-> sku, gross |-> gross, discount |-> discount, net |-> gross - discount]

\* Below, at a warning, critical, ambiguous, and a credit.
MCBills == {<<>>,
            <<MCRow("linux", 9, 0)>>,
            <<MCRow("linux", 12, 9), MCRow("storage", 1, 0)>>,
            <<MCRow("linux", 12, 0), MCRow("linux", 1, 0)>>,
            <<MCRow("linux", 1, 2), MCRow("storage", 12, 0)>>}

MCAllowance(owner, resource, sku, basis) ==
  [owner |-> owner, resource |-> resource, sku |-> sku, quantity |-> 10, basis |-> basis]

Limits == {[warning |-> 85, critical |-> 100]}

\* The last but one is invalid: one owner's minutes are limited twice.
MCConfigs ==
  {[allowances |-> <<MCAllowance("Acme", "minutes", "linux", "gross"),
                     MCAllowance("ACME", "space", "storage", "net")>>,
    thresholds |-> Limits],
   [allowances |-> <<MCAllowance("ACME", "minutes", "linux", "gross"),
                     MCAllowance("other", "minutes", "linux", "net")>>,
    thresholds |-> Limits],
   [allowances |-> <<MCAllowance("other", "minutes", "linux", "discount")>>,
    thresholds |-> {}],
   [allowances |-> <<MCAllowance("Acme", "minutes", "linux", "gross"),
                     MCAllowance("ACME", "minutes", "storage", "gross")>>,
    thresholds |-> Limits],
   Default}
=============================================================================
