SPECIFICATION DomainSpec
CONSTANTS
  Ages = {0, 539, 540, 541, 731}
  Findings = {"form", "iframe", "pixels", "div", "form_div"}
  Top = 3
  Alarming = 2
  MaxWatched = 2
INVARIANTS ArmedIsNotExonerated HistoryAccounts
PROPERTIES HidingNeverCalms AgeingNeverAlarms SilentWhoisCalmsOnlyFronts NoAlertTwice SavedAfterTold
