CONSTANTS
  Characters <- CssCharacters
  MaxInput = 9
  MaxRules = 2
  MaxDecls = 1
  Arena = 3
  MaxPrelude = 3
  MaxWord = 1
  MaxOdd = 1
  Documents <- MCDocuments
  Sheets <- MCSheets
  Pages <- MCPages
SPECIFICATION StyleSpec
INVARIANT RulesOwnTheirDeclarations
INVARIANT BudgetsCutTheEnd
INVARIANT ComputedIsCascade
