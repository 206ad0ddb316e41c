CONSTANTS
  En = en
  fr = fr
  xx = xx
  b1 = b1
  b2 = b2
  t1 = t1
  t2 = t2
  t3 = t3
  Supported = {en, fr, de}
  Others = {xx}
  Browsers = {b1, b2}
  Tabs = {t1, t2, t3}
  Browser <- MCBrowser
  Languages <- MCLanguages
  NoLanguage = None
  Idle = Idle
  Sent = Sent
  MaxOpens = 3
  MaxPicks = 2
SPECIFICATION LocaleSpec
CHECK_DEADLOCK FALSE
INVARIANTS
  ChoiceIsKept
